---- MODULE Spec2Model ----
(***************************************************************************)
(* graft: a conversation harness that drives a request / stream / tool /   *)
(* continue cycle against a remote model service (src/graft.py).           *)
(*                                                                         *)
(* Text is modelled as a sequence of string tokens (a token is one         *)
(* character of file content or one fragment of a formatted message), so   *)
(* that Python's string concatenation is \o and "" is << >>.  File data is *)
(* a sequence of bytes (numbers).  A filesystem path in canonical form is  *)
(* the sequence of its components from "/": << >> is "/".                  *)
(***************************************************************************)
EXTENDS Integers, Sequences, FiniteSets, TLC

VARIABLES
    messages,           \* conversation.messages (for prepare_messages_for_cache on its
                        \* own: the list handed to it)
    pc,                 \* position of the session: idle | request | tools | crashed
    response,           \* the response of the request in progress (send_message local)
    tool_results,       \* send_message local: results collected in this round
    requests,           \* stats['requests']
    tool_calls,         \* stats['tool_calls']
    recent_tool_calls,  \* timestamps of the rate window
    now,                \* the clock read by time.time()
    tool_executor,      \* whether a ToolExecutor is configured
    fs,                 \* the filesystem: canonical path -> node
    before,             \* history: conversation.messages when send_message was entered
                        \* (for prepare_messages_for_cache on its own: the list before
                        \* the first call)
    rounds,             \* history: tool rounds completed in the current call
    exec_log,           \* history: the tool_use blocks executed in this round, in order:
                        \* id, result of the tool, advisory and number of the rate check
    outcome,            \* history: how the last send_message call ended: done | failed
                        \* (transport exception) | tool_raised | interrupted
    last,               \* history: the last ToolExecutor.execute call and its result
    cache_ttl,          \* GraftSession.cache_ttl: "off" | "5m" | "1h"
    prepared,           \* history: the message lists prepare_messages_for_cache returned,
                        \* in order (in send_message: one per request of the current call)
    rate_log,           \* history: the last _check_tool_rate call
    stats,              \* GraftSession.stats without 'requests' and 'tool_calls'
    conversation,       \* whether self.conversation is set: "none" | "some"
    unsaved_changes,    \* conversation.unsaved_changes
    stat_log,           \* history: the last new / load / import operation
    settings,           \* the session's flags: web_search_enabled, tools_enabled,
                        \* shell_enabled
    conv,               \* the active conversation's name and persisted tool settings
    store,              \* the saved conversations: name -> content of <name>.json
    sent,               \* history: the tool list of the last request issued
    compress,           \* handle_compress: the position inside it (at: none | instructed
                        \* | applied); history: the name and messages before it
                        \* replaced the messages, and the messages it put in place
    stream              \* the stream of the request in progress and the locals of its
                        \* event loop: response_text, thinking_text, in_thinking; with
                        \* history: what was printed

vars == <<messages, pc, response, tool_results, requests, tool_calls,
          recent_tool_calls, now, tool_executor, fs, before, rounds,
          exec_log, outcome, last, cache_ttl, prepared, rate_log,
          stats, conversation, unsaved_changes, stat_log, stream,
          settings, conv, store, sent, compress>>

turnVars == <<messages, pc, response, tool_results, requests, tool_calls,
              recent_tool_calls, now, tool_executor, before, rounds,
              exec_log, outcome, cache_ttl, prepared, rate_log,
              stats, conversation, unsaved_changes, stat_log,
              settings, conv, store, sent, compress>>

\* the session state outside the turn in progress and its counters
sessionVars == <<stats, conversation, unsaved_changes, stat_log>>

\* the state the commands of the REPL work on
commandVars == <<settings, conv, store, sent, compress>>

----------------------------------------------------------------------------
(* Bounds of the model *)

\* requests answered in one session (caps stats['requests'])
MaxRequests == 3
\* the latest clock value
MaxTime == 60
\* the longest message list handed to prepare_messages_for_cache on its own
MaxMessages == 4
\* calls of prepare_messages_for_cache made on one message list
MaxPrepares == 2
\* calls of _check_tool_rate made on its own
MaxChecks == 4
\* new / load / import operations in one session
MaxResets == 2
\* requests whose stream is decoded in one turn
MaxStreams == 2

(* Program constants *)

\* _check_tool_rate: calls older than this many seconds are pruned
RateWindowSecs == 60
\* _check_tool_rate: the window size from which the advisory is produced
RateThreshold == 10

----------------------------------------------------------------------------
(* Generic helpers *)

Last(s) == s[Len(s)]

Front(s) == SubSeq(s, 1, Len(s) - 1)

IsPrefix(p, s) == Len(p) <= Len(s) /\ SubSeq(s, 1, Len(p)) = p

RECURSIVE Flatten(_)
Flatten(ss) == IF ss = << >> THEN << >> ELSE Head(ss) \o Flatten(Tail(ss))

----------------------------------------------------------------------------
(* The filesystem seen by pathlib *)

Dir == [t |-> "dir", data |-> << >>, to |-> << >>]

File(bytes) == [t |-> "file", data |-> bytes, to |-> << >>]

Link(target) == [t |-> "link", data |-> << >>, to |-> target]

\* ToolExecutor.__init__: project_root, resolved once at construction
project_root == <<"r">>

\* A path string is absolute or relative and splits into components.
\* The component NulName stands for a name holding an embedded null byte.
NulName == "a\\0b"

RelPath(comps) == [abs |-> FALSE, comps |-> comps]

AbsPath(comps) == [abs |-> TRUE, comps |-> comps]

\* str(path_str) inside a formatted message
PathText(p) == (IF p.abs THEN <<"/">> ELSE << >>) \o p.comps

Parent(c) == IF c = << >> THEN << >> ELSE Front(c)

Exists(f, c) == c \in DOMAIN f

\* Path.exists/is_dir/is_file follow a final symbolic link; canonical paths
\* returned by Resolve never end in a link.
IsDir(f, c) == Exists(f, c) /\ f[c].t = "dir"

IsFile(f, c) == Exists(f, c) /\ f[c].t = "file"

\* Path.resolve() (non-strict): walks the components from cur, dropping ".",
\* popping on "..", and replacing a symbolic link by its target; a component
\* that does not exist is kept as written.  Link targets are canonical
\* absolute paths of the fixture.
RECURSIVE ResolveFrom(_, _, _)
ResolveFrom(f, cur, comps) ==
    IF comps = << >> THEN cur
    ELSE LET c == Head(comps)
             rest == Tail(comps)
             nxt == Append(cur, c)
         IN  IF c = "." THEN ResolveFrom(f, cur, rest)
             ELSE IF c = ".." THEN ResolveFrom(f, Parent(cur), rest)
             ELSE IF Exists(f, nxt) /\ f[nxt].t = "link"
                  THEN ResolveFrom(f, f[nxt].to, rest)
                  ELSE ResolveFrom(f, nxt, rest)

\* project_root / path_str: an absolute path_str replaces the root
JoinRoot(p) == IF p.abs THEN p.comps ELSE project_root \o p.comps

\* (project_root / path_str).resolve(); raises ValueError on an embedded null byte
HasNul(p) == \E i \in 1..Len(p.comps) : p.comps[i] = NulName

Resolve(f, p) == ResolveFrom(f, << >>, JoinRoot(p))

\* requested.relative_to(project_root) succeeds: component-wise prefix
RelativeToRoot(c) == IsPrefix(project_root, c)

----------------------------------------------------------------------------
(* Exceptions and results inside ToolExecutor *)

\* A call either returns a value or raises: exc is "" or the exception's class.
Ret(v) == [exc |-> "", msg |-> << >>, val |-> v]

Raise(kind, msg) == [exc |-> kind, msg |-> msg, val |-> << >>]

\* issubclass(kind, ValueError)
IsValueError(kind) == kind \in {"ValueError", "UnicodeEncodeError", "UnicodeDecodeError"}

AccessDeniedMsg(p) ==
    <<"Access denied: path '">> \o PathText(p) \o <<"' is outside project root">>

\* _safe_path checking the joined path before it is resolved
SafePathRaw(f, p) ==
    IF HasNul(p) THEN Raise("ValueError", <<"embedded null byte">>)
    ELSE IF RelativeToRoot(JoinRoot(p)) THEN Ret(Resolve(f, p))
    ELSE Raise("ValueError", AccessDeniedMsg(p))

\* _safe_path normalising the text of the path without following links
SafePathLexical(f, p) ==
    IF HasNul(p) THEN Raise("ValueError", <<"embedded null byte">>)
    ELSE LET requested == ResolveFrom(<< >>, << >>, JoinRoot(p))
         IN  IF RelativeToRoot(requested) THEN Ret(requested)
             ELSE Raise("ValueError", AccessDeniedMsg(p))

\* ToolExecutor._safe_path
SafePath(f, p) ==
    IF HasNul(p) THEN Raise("ValueError", <<"embedded null byte">>)
    ELSE LET requested == Resolve(f, p)
         IN  IF RelativeToRoot(requested) THEN Ret(requested)
             ELSE Raise("ValueError", AccessDeniedMsg(p))

----------------------------------------------------------------------------
(* Text, bytes and the UTF-8 codec of read_text / write_text *)

CR == "\\r"

LF == "\\n"

\* a lone surrogate: a str value that UTF-8 cannot encode
Surrogate == "\\ud800"

\* str.encode('utf-8') of one character; << >> marks "cannot be encoded"
EncodeChar(c) ==
    CASE c = "h" -> <<104>>
      [] c = "i" -> <<105>>
      [] c = "e'" -> <<195, 169>>
      [] c = CR -> <<13>>
      [] c = LF -> <<10>>
      [] OTHER -> << >>

Encodable(text) == \A i \in 1..Len(text) : EncodeChar(text[i]) # << >>

Encode(text) == Flatten([i \in 1..Len(text) |-> EncodeChar(text[i])])

\* bytes.decode('utf-8'): ok is FALSE on an invalid sequence
RECURSIVE Decode(_)
Decode(bytes) ==
    IF bytes = << >> THEN [ok |-> TRUE, text |-> << >>]
    ELSE LET b == Head(bytes)
             one(c) == LET r == Decode(Tail(bytes))
                       IN  [ok |-> r.ok, text |-> <<c>> \o r.text]
         IN  CASE b = 104 -> one("h")
               [] b = 105 -> one("i")
               [] b = 13 -> one(CR)
               [] b = 10 -> one(LF)
               [] b = 195 /\ Len(bytes) >= 2 /\ bytes[2] = 169 ->
                    LET r == Decode(Tail(Tail(bytes)))
                    IN  [ok |-> r.ok, text |-> <<"e'">> \o r.text]
               [] OTHER -> [ok |-> FALSE, text |-> << >>]

\* universal newlines of a text-mode read: "\r\n" and "\r" become "\n"
RECURSIVE ReadNewlines(_)
ReadNewlines(text) ==
    IF text = << >> THEN << >>
    ELSE IF Head(text) = CR
         THEN IF Len(text) >= 2 /\ text[2] = LF
              THEN <<LF>> \o ReadNewlines(Tail(Tail(text)))
              ELSE <<LF>> \o ReadNewlines(Tail(text))
         ELSE <<Head(text)>> \o ReadNewlines(Tail(text))

----------------------------------------------------------------------------
(* ToolExecutor operations: each yields [r |-> returned or raised, fs |-> filesystem after] *)

Out(r, f) == [r |-> r, fs |-> f]

\* every name of the model, in the order sorted() gives
SortedNames == <<"a", "b.txt", "e", "in", "lnk", "n", "o", "r", "s.txt">>

Children(f, c) == {d \in DOMAIN f : Len(d) = Len(c) + 1 /\ IsPrefix(c, d)}

\* item.is_dir() follows a symbolic link
IsDirFollow(f, c) == IF f[c].t = "link" THEN IsDir(f, f[c].to) ELSE f[c].t = "dir"

EntryLine(f, c) == <<IF IsDirFollow(f, c) THEN "[d] " ELSE "    ", Last(c)>>

RECURSIVE JoinLines(_)
JoinLines(ls) ==
    IF ls = << >> THEN << >>
    ELSE IF Len(ls) = 1 THEN Head(ls)
    ELSE Head(ls) \o <<"\n">> \o JoinLines(Tail(ls))

\* _list_dir without sorted(): the entries in the order opposite to the sorted one
ListDirUnsorted(f, p) ==
    LET sp == SafePath(f, p)
        path == sp.val
        present == SelectSeq(SortedNames, LAMBDA n : Append(path, n) \in Children(f, path))
        entries == [i \in 1..Len(present) |->
                        EntryLine(f, Append(path, present[Len(present) + 1 - i]))]
    IN  IF sp.exc # "" THEN Out(sp, f)
        ELSE IF ~Exists(f, path)
             THEN Out(Ret(<<"Error: Directory '">> \o PathText(p) \o <<"' does not exist">>), f)
        ELSE IF ~IsDir(f, path)
             THEN Out(Ret(<<"Error: '">> \o PathText(p) \o <<"' is not a directory">>), f)
        ELSE IF entries = << >> THEN Out(Ret(<<"(empty directory)">>), f)
        ELSE Out(Ret(JoinLines(entries)), f)

\* ToolExecutor._list_dir
ListDir(f, p) ==
    LET sp == SafePath(f, p)
        path == sp.val
        present == SelectSeq(SortedNames, LAMBDA n : Append(path, n) \in Children(f, path))
        entries == [i \in 1..Len(present) |-> EntryLine(f, Append(path, present[i]))]
    IN  IF sp.exc # "" THEN Out(sp, f)
        ELSE IF ~Exists(f, path)
             THEN Out(Ret(<<"Error: Directory '">> \o PathText(p) \o <<"' does not exist">>), f)
        ELSE IF ~IsDir(f, path)
             THEN Out(Ret(<<"Error: '">> \o PathText(p) \o <<"' is not a directory">>), f)
        ELSE IF entries = << >> THEN Out(Ret(<<"(empty directory)">>), f)
        ELSE Out(Ret(JoinLines(entries)), f)

\* ToolExecutor._read_file
ReadFile(f, p) ==
    LET sp == SafePath(f, p)
        path == sp.val
    IN  IF sp.exc # "" THEN Out(sp, f)
        ELSE IF ~Exists(f, path)
             THEN Out(Ret(<<"Error: File '">> \o PathText(p) \o <<"' does not exist">>), f)
        ELSE IF ~IsFile(f, path)
             THEN Out(Ret(<<"Error: '">> \o PathText(p) \o <<"' is not a file">>), f)
        ELSE LET d == Decode(f[path].data)
             IN  IF d.ok THEN Out(Ret(ReadNewlines(d.text)), f)
                 ELSE Out(Ret(<<"Error: '">> \o PathText(p) \o <<"' is not a text file">>), f)

\* Path.mkdir(parents=True, exist_ok=True)
RECURSIVE Mkdirs(_, _)
Mkdirs(f, d) ==
    IF Exists(f, d)
    THEN IF IsDir(f, d) THEN Out(Ret(<< >>), f)
         ELSE Out(Raise("FileExistsError", <<"File exists">>), f)
    ELSE IF ~Exists(f, Parent(d))
         THEN LET up == Mkdirs(f, Parent(d))
              IN  IF up.r.exc # "" THEN up
                  ELSE Out(Ret(<< >>), [c \in DOMAIN up.fs \cup {d} |->
                                          IF c = d THEN Dir ELSE up.fs[c]])
    ELSE IF ~IsDir(f, Parent(d))
         THEN Out(Raise("NotADirectoryError", <<"Not a directory">>), f)
    ELSE Out(Ret(<< >>), [c \in DOMAIN f \cup {d} |-> IF c = d THEN Dir ELSE f[c]])

PutFile(f, c, bytes) == [d \in DOMAIN f \cup {c} |-> IF d = c THEN File(bytes) ELSE f[d]]

\* Path.write_text: open(mode='w') creates or truncates the file, then the
\* text is encoded and written
WriteText(f, path, content) ==
    IF IsDir(f, path) THEN Out(Raise("IsADirectoryError", <<"Is a directory">>), f)
    ELSE IF ~Encodable(content)
         THEN Out(Raise("UnicodeEncodeError", <<"surrogates not allowed">>),
                  PutFile(f, path, << >>))
    ELSE Out(Ret(<< >>), PutFile(f, path, Encode(content)))

\* ToolExecutor._write_file
WriteFile(f, p, content) ==
    LET sp == SafePath(f, p)
        path == sp.val
    IN  IF sp.exc # "" THEN Out(sp, f)
        ELSE LET md == Mkdirs(f, Parent(path))
             IN  IF md.r.exc # "" THEN md
                 ELSE LET w == WriteText(md.fs, path, content)
                      IN  IF w.r.exc # "" THEN w
                          ELSE Out(Ret(<<"Successfully wrote ", ToString(Len(content)),
                                         " bytes to ">> \o PathText(p)), w.fs)

----------------------------------------------------------------------------
(* shell_exec: the commands of the model and what each one's process does *)

\* subprocess.run(command, shell=True, cwd=project_root, capture_output=True,
\* text=True, timeout=30): what the process does.  "sleep 60" outlives the
\* timeout; the output of "printf '\377'" is not UTF-8, so decoding it raises
\* inside subprocess.run.
Completed(stdout, stderr, rc) ==
    [timeout |-> FALSE, exc |-> "", msg |-> << >>, stdout |-> stdout, stderr |-> stderr, rc |-> rc]

ShellRun(command) ==
    CASE command = "true" -> Completed(<< >>, << >>, 0)
      [] command = "echo hi" -> Completed(<<"h", "i", LF>>, << >>, 0)
      [] command = "ls nope" -> Completed(<< >>, <<"ls: nope", LF>>, 2)
      [] command = "exit 2" -> Completed(<< >>, << >>, 2)
      [] command = "echo out; echo err >&2; exit 3" ->
            Completed(<<"out", LF>>, <<"err", LF>>, 3)
      [] command = "sleep 60" ->
            [timeout |-> TRUE, exc |-> "", msg |-> << >>,
             stdout |-> << >>, stderr |-> << >>, rc |-> 0]
      [] command = "printf '\\377'" ->
            [timeout |-> FALSE, exc |-> "UnicodeDecodeError",
             msg |-> <<"'utf-8' codec can't decode byte 0xff">>,
             stdout |-> << >>, stderr |-> << >>, rc |-> 0]
      [] OTHER -> Completed(<< >>, <<"sh: not found", LF>>, 127)

Commands ==
    {"true", "echo hi", "ls nope", "exit 2", "echo out; echo err >&2; exit 3",
     "sleep 60", "printf '\\377'"}

TimedOutText ==
    <<"Error: Command timed out and was killed after 30 seconds.",
      " Note: any child processes spawned by this command may still be running">>

\* _shell_exec reporting the exit code of every completed command
ShellExecAlwaysCode(f, command) ==
    LET run == ShellRun(command)
        output == (IF run.stdout # << >> THEN <<<<"stdout:\n">> \o run.stdout>> ELSE << >>)
               \o (IF run.stderr # << >> THEN <<<<"stderr:\n">> \o run.stderr>> ELSE << >>)
               \o <<<<"(exit code: ", ToString(run.rc), ")">>>>
    IN  IF ~IsDir(f, project_root)
        THEN Out(Ret(<<"Error: ", "FileNotFoundError", ": ", "No such file or directory">>), f)
        ELSE IF run.timeout THEN Out(Ret(TimedOutText), f)
        ELSE IF run.exc # "" THEN Out(Ret(<<"Error: ", run.exc, ": ">> \o run.msg), f)
        ELSE Out(Ret(JoinLines(output)), f)

\* ToolExecutor._shell_exec
ShellExec(f, command) ==
    LET run == ShellRun(command)
        output == (IF run.stdout # << >> THEN <<<<"stdout:\n">> \o run.stdout>> ELSE << >>)
               \o (IF run.stderr # << >> THEN <<<<"stderr:\n">> \o run.stderr>> ELSE << >>)
               \o (IF run.rc # 0
                   THEN <<<<"(exit code: ", ToString(run.rc), ")">>>> ELSE << >>)
    IN  IF ~IsDir(f, project_root)
        THEN Out(Ret(<<"Error: ", "FileNotFoundError", ": ", "No such file or directory">>), f)
        ELSE IF run.timeout THEN Out(Ret(TimedOutText), f)
        ELSE IF run.exc # "" THEN Out(Ret(<<"Error: ", run.exc, ": ">> \o run.msg), f)
        ELSE IF output = << >> THEN Out(Ret(<<"(no output)">>), f)
        ELSE Out(Ret(JoinLines(output)), f)

----------------------------------------------------------------------------
(* ToolExecutor.execute *)

HasKey(input, k) == k \in DOMAIN input

KeyErr(f, k) == Out(Raise("KeyError", <<"'", k, "'">>), f)

\* the body of execute's try block: the dispatch on the tool name
Dispatch(f, tool_name, tool_input) ==
    CASE tool_name = "list_dir" ->
            IF HasKey(tool_input, "path") THEN ListDir(f, tool_input.path)
            ELSE KeyErr(f, "path")
      [] tool_name = "read_file" ->
            IF HasKey(tool_input, "path") THEN ReadFile(f, tool_input.path)
            ELSE KeyErr(f, "path")
      [] tool_name = "write_file" ->
            IF ~HasKey(tool_input, "path") THEN KeyErr(f, "path")
            ELSE IF ~HasKey(tool_input, "content") THEN KeyErr(f, "content")
            ELSE WriteFile(f, tool_input.path, tool_input.content)
      [] tool_name = "shell_exec" ->
            IF HasKey(tool_input, "command") THEN ShellExec(f, tool_input.command)
            ELSE KeyErr(f, "command")
      [] OTHER -> Out(Ret(<<"Error: Unknown tool '", tool_name, "'">>), f)

\* the two except clauses of execute: what is returned for a raised exception
Handle(r) ==
    IF r.exc = "" THEN r.val
    ELSE IF IsValueError(r.exc) THEN <<"Error: ">> \o r.msg
    ELSE <<"Error: ", r.exc, ": ">> \o r.msg

\* issubclass(kind, Exception): every class the model raises but these
IsException(kind) == kind \notin {"KeyboardInterrupt", "SystemExit"}

\* execute with its second except clause missing
ExecuteValueErrorOnly(f, tool_name, tool_input) ==
    LET d == Dispatch(f, tool_name, tool_input)
        caught == d.r.exc = "" \/ IsValueError(d.r.exc)
    IN  [result |-> IF caught THEN Handle(d.r) ELSE << >>,
         raised |-> IF caught THEN "" ELSE d.r.exc,
         exc |-> d.r.exc, msg |-> d.r.msg, fs |-> d.fs]

\* ToolExecutor.execute: [result |-> the string returned, raised |-> the
\* exception that leaves execute ("" when none), exc and msg |-> the
\* exception raised inside the try block ("" when none), fs |-> the
\* filesystem after]
Execute(f, tool_name, tool_input) ==
    LET d == Dispatch(f, tool_name, tool_input)
        caught == d.r.exc = "" \/ IsValueError(d.r.exc) \/ IsException(d.r.exc)
    IN  [result |-> IF caught THEN Handle(d.r) ELSE << >>,
         raised |-> IF caught THEN "" ELSE d.r.exc,
         exc |-> d.r.exc, msg |-> d.r.msg, fs |-> d.fs]

----------------------------------------------------------------------------
(* Messages and content blocks *)

\* content that is a plain str / content that is a list of block dicts
Str(t) == [str |-> t]

Blocks(bs) == [blocks |-> bs]

IsStr(content) == "str" \in DOMAIN content

Msg(role, content) == [role |-> role, content |-> content]

TextBlock(t) == [type |-> "text", text |-> t]

ThinkingBlock(t, sig) == [type |-> "thinking", thinking |-> t, signature |-> sig]

ToolUse(id, name, input) == [type |-> "tool_use", id |-> id, name |-> name, input |-> input]

\* a block of the service that is neither text, thinking nor tool_use
ServerBlock == [type |-> "server_tool_use", id |-> "srv"]

ToolResult(id, content) == [type |-> "tool_result", tool_use_id |-> id, content |-> content]

\* GraftSession._serialize_content: one block
SerializeBlock(block) ==
    IF block.type = "thinking"
    THEN <<[type |-> "thinking", thinking |-> block.thinking, signature |-> block.signature]>>
    ELSE IF "text" \in DOMAIN block THEN <<[type |-> "text", text |-> block.text]>>
    ELSE IF block.type = "tool_use"
         THEN <<[type |-> "tool_use", id |-> block.id, name |-> block.name,
                 input |-> block.input]>>
    ELSE << >>

\* GraftSession._serialize_content
SerializeContent(content) == Flatten([i \in 1..Len(content) |-> SerializeBlock(content[i])])

\* send_message: tool_uses, the tool_use blocks of response.content in order
ToolUsesOf(content) == SelectSeq(content, LAMBDA b : b.type = "tool_use")

\* send_message: response_text, the text deltas of the stream concatenated
\* (the stream delivers the text of each text block as text deltas)
ResponseText(content) ==
    Flatten([i \in 1..Len(content) |->
                IF content[i].type = "text" THEN content[i].text ELSE << >>])

----------------------------------------------------------------------------
(* The event loop over the stream of one request *)

\* the events of a stream
BlockStart(block_type) == [type |-> "content_block_start", block_type |-> block_type]
Delta(delta_type, text) ==
    [type |-> "content_block_delta", delta_type |-> delta_type, text |-> text]
BlockStop == [type |-> "content_block_stop"]
OtherEvent(type) == [type |-> type]

\* what print() wrote: a text delta or a marker of the loop
Printed(kind, text) == [kind |-> kind, text |-> text]

\* the locals of the loop when the stream is opened, after the requests before it
StreamStartKeepingText(prev) ==
    [response_text |-> prev.response_text, thinking_text |-> << >>, in_thinking |-> FALSE]

\* the locals of the loop when the stream is opened
StreamStart(prev) ==
    [response_text |-> << >>, thinking_text |-> << >>, in_thinking |-> FALSE]

\* one iteration of "for event in stream": the locals and the output after it
OnEvent(st, event) ==
    CASE event.type = "content_block_start" ->
            IF event.block_type = "thinking"
            THEN [st EXCEPT !.in_thinking = TRUE,
                            !.shown = Append(@, Printed("marker", <<"[Thinking...] ">>))]
            ELSE IF event.block_type = "text" THEN [st EXCEPT !.in_thinking = FALSE]
            ELSE st
      [] event.type = "content_block_delta" ->
            IF event.delta_type = "thinking_delta"
            THEN [st EXCEPT !.thinking_text = @ \o event.text]
            ELSE IF event.delta_type = "text_delta"
            THEN [st EXCEPT !.shown = Append(@, Printed("delta", event.text)),
                            !.response_text = @ \o event.text]
            ELSE st
      [] event.type = "content_block_stop" ->
            IF st.in_thinking
            THEN [st EXCEPT !.shown = @ \o <<Printed("marker",
                                                     <<"[", ToString(Len(st.thinking_text)),
                                                       " chars]", "\n">>),
                                             Printed("marker", <<"Claude: ">>)>>,
                            !.in_thinking = FALSE]
            ELSE st
      [] OTHER -> st

\* the events the service streams for one content block
EventsOfBlock(block) ==
    CASE block.type = "text" ->
            <<BlockStart("text")>>
            \o [i \in 1..Len(block.text) |-> Delta("text_delta", <<block.text[i]>>)]
            \o <<BlockStop>>
      [] block.type = "thinking" ->
            <<BlockStart("thinking"), Delta("thinking_delta", block.thinking),
              Delta("signature_delta", << >>), BlockStop>>
      [] block.type = "tool_use" ->
            <<BlockStart("tool_use"), Delta("input_json_delta", << >>), BlockStop>>
      [] OTHER -> <<BlockStart(block.type), BlockStop>>

\* the events of a whole response
EventsOf(content) ==
    <<OtherEvent("message_start")>>
    \o Flatten([i \in 1..Len(content) |-> EventsOfBlock(content[i])])
    \o <<OtherEvent("message_delta"), OtherEvent("message_stop")>>

----------------------------------------------------------------------------
(* prepare_messages_for_cache *)

\* the cache_control object built from the TTL
CacheControl(ttl) ==
    IF ttl = "1h" THEN [type |-> "ephemeral", ttl |-> 3600] ELSE [type |-> "ephemeral"]

\* is_human_message taking every list content of a user message for text
IsHumanMessageAnyList(msg) ==
    msg.role = "user" /\ (IsStr(msg.content) \/ msg.content.blocks # << >>)

IsHumanMessageAnyUser(msg) == msg.role = "user"

\* is_human_message: role user, and str content or a list holding a text block
IsHumanMessage(msg) ==
    IF msg.role # "user" THEN FALSE
    ELSE IF IsStr(msg.content) THEN TRUE
    ELSE \E i \in 1..Len(msg.content.blocks) : msg.content.blocks[i].type = "text"

\* human_indices (indices count from 1)
HumanIndices(msgs) ==
    SelectSeq([i \in 1..Len(msgs) |-> i], LAMBDA i : IsHumanMessage(msgs[i]))

CacheIndexLast(msgs) ==
    LET h == HumanIndices(msgs) IN IF Len(h) >= 2 THEN h[Len(h)] ELSE 0

\* cache_index: human_indices[-2], or no index (0 here, -1 in the code)
CacheIndex(msgs) ==
    LET h == HumanIndices(msgs) IN IF Len(h) >= 2 THEN h[Len(h) - 1] ELSE 0

\* {**block, "cache_control": cache_control}
WithCacheControl(block, cache_control) == [cache_control |-> cache_control] @@ block

PreparedContentFirstBlock(content, marked, cache_control) ==
    IF IsStr(content)
    THEN Blocks(<<IF marked THEN WithCacheControl(TextBlock(content.str), cache_control)
                  ELSE TextBlock(content.str)>>)
    ELSE IF marked /\ content.blocks # << >>
         THEN Blocks([content.blocks EXCEPT ![1] = WithCacheControl(@, cache_control)])
         ELSE content

\* the content of one prepared message; marked: i == cache_index
PreparedContent(content, marked, cache_control) ==
    IF IsStr(content)
    THEN Blocks(<<IF marked
                  THEN [type |-> "text", text |-> content.str, cache_control |-> cache_control]
                  ELSE TextBlock(content.str)>>)
    ELSE IF marked /\ content.blocks # << >>
         THEN Blocks([content.blocks EXCEPT
                        ![Len(content.blocks)] = WithCacheControl(@, cache_control)])
         ELSE content

\* the loop that builds `prepared`
PreparedList(msgs, ttl) ==
    [i \in 1..Len(msgs) |->
        Msg(msgs[i].role,
            PreparedContent(msgs[i].content, i = CacheIndex(msgs), CacheControl(ttl)))]

PrepareInPlace(msgs, cache_ttl_arg) ==
    IF cache_ttl_arg = "off" \/ Len(msgs) < 2
    THEN [prepared |-> msgs, messages |-> msgs]
    ELSE [prepared |-> PreparedList(msgs, cache_ttl_arg),
          messages |-> PreparedList(msgs, cache_ttl_arg)]

PrepareNormalizing(msgs, cache_ttl_arg) ==
    IF cache_ttl_arg = "off" \/ Len(msgs) < 2
    THEN [prepared |-> [i \in 1..Len(msgs) |->
                          Msg(msgs[i].role,
                              PreparedContent(msgs[i].content, FALSE, CacheControl("5m")))],
          messages |-> msgs]
    ELSE [prepared |-> PreparedList(msgs, cache_ttl_arg), messages |-> msgs]

\* prepare_messages_for_cache(messages, cache_ttl):
\* [prepared |-> the list returned, messages |-> the list passed in, as it is
\* after the call].  With ttl off or fewer than two messages the list passed
\* in is itself returned; otherwise a new list of new message dicts is built,
\* and the marked content is a copy of the stored list with a new last block.
PrepareMessagesForCache(msgs, cache_ttl_arg) ==
    IF cache_ttl_arg = "off" \/ Len(msgs) < 2
    THEN [prepared |-> msgs, messages |-> msgs]
    ELSE [prepared |-> PreparedList(msgs, cache_ttl_arg), messages |-> msgs]

----------------------------------------------------------------------------
(* Usage counters *)

\* An optional number is << >> (None) or <<n>>; an attribute an object does
\* not have is a field the record does not have.
\* getattr(obj, field, 0) or 0
OrZero(obj, field) ==
    IF field \in DOMAIN obj /\ obj[field] # << >> THEN obj[field][1] ELSE 0

\* response.usage: the two counts every usage has and the optional ones
Usage(input_tokens, output_tokens, optional) ==
    [input_tokens |-> input_tokens, output_tokens |-> output_tokens] @@ optional

ZeroStats ==
    [cache_creation_input_tokens |-> 0, cache_read_input_tokens |-> 0,
     total_input_tokens |-> 0, total_output_tokens |-> 0, web_searches |-> 0,
     last_input_tokens |-> 0]

\* getattr(usage, 'server_tool_use', None), when truthy: its web_search_requests or 0
WebSearches(usage) ==
    IF "server_tool_use" \in DOMAIN usage /\ usage.server_tool_use # << >>
    THEN OrZero(usage.server_tool_use[1], "web_search_requests")
    ELSE 0

UpdateStatsAddingLast(st, usage) ==
    [cache_creation_input_tokens |->
         st.cache_creation_input_tokens + OrZero(usage, "cache_creation_input_tokens"),
     cache_read_input_tokens |->
         st.cache_read_input_tokens + OrZero(usage, "cache_read_input_tokens"),
     total_input_tokens |-> st.total_input_tokens + usage.input_tokens,
     total_output_tokens |-> st.total_output_tokens + usage.output_tokens,
     web_searches |-> st.web_searches + WebSearches(usage),
     last_input_tokens |-> st.last_input_tokens + usage.input_tokens]

\* GraftSession._update_stats: the stats after the call
UpdateStats(st, usage) ==
    [cache_creation_input_tokens |->
         st.cache_creation_input_tokens + OrZero(usage, "cache_creation_input_tokens"),
     cache_read_input_tokens |->
         st.cache_read_input_tokens + OrZero(usage, "cache_read_input_tokens"),
     total_input_tokens |-> st.total_input_tokens + usage.input_tokens,
     total_output_tokens |-> st.total_output_tokens + usage.output_tokens,
     web_searches |-> st.web_searches + WebSearches(usage),
     last_input_tokens |-> usage.input_tokens]

\* send_message: "if hasattr(response, 'usage'): self._update_stats(response.usage)"
RecordUsage(st, resp) ==
    IF "usage" \in DOMAIN resp THEN UpdateStats(st, resp.usage) ELSE st

ResetStatsKeepingLast(st, n_requests, n_tool_calls) ==
    [stats |-> [ZeroStats EXCEPT !.last_input_tokens = st.last_input_tokens],
     requests |-> 0, tool_calls |-> 0]

\* self.stats = {k: 0 for k in self.stats}
ResetStats(st, n_requests, n_tool_calls) ==
    [stats |-> [k \in DOMAIN st |-> 0], requests |-> 0, tool_calls |-> 0]

----------------------------------------------------------------------------
(* The rate window *)

PruneWindowInclusive(window, t) == SelectSeq(window, LAMBDA x : t - x <= RateWindowSecs)

PruneWindow(window, t) == SelectSeq(window, LAMBDA x : t - x < RateWindowSecs)

CheckToolRateAtBoundary(window, t) ==
    LET w == Append(PruneWindow(window, t), t)
    IN  [window |-> w,
         advisory |-> IF Len(w) = RateThreshold
                      THEN <<"\n\n[Note: ", ToString(Len(w)),
                             " tool calls in the last 60 seconds.]">>
                      ELSE << >>]

\* GraftSession._check_tool_rate at clock value t:
\* [window |-> recent_tool_calls after, advisory |-> the string returned]
CheckToolRate(window, t) ==
    LET w == Append(PruneWindow(window, t), t)
    IN  [window |-> w,
         advisory |-> IF Len(w) >= RateThreshold
                      THEN <<"\n\n[Note: ", ToString(Len(w)),
                             " tool calls in the last 60 seconds.]">>
                      ELSE << >>]

----------------------------------------------------------------------------
(* Tool settings and the tool list of a request *)

\* Conversation.__init__: the name (a sequence of tokens, None is << >>) and
\* the tool settings persisted with the conversation
FreshConv ==
    [name |-> << >>, web_search |-> FALSE, tools_path |-> FALSE, shell_enabled |-> FALSE]

\* GraftSession.__init__: the flags of the session
InitSettings ==
    [web_search_enabled |-> FALSE, tools_enabled |-> FALSE, shell_enabled |-> FALSE]

\* the names of the tool schemas
FILE_TOOLS == <<"list_dir", "read_file", "write_file">>
SHELL_TOOL == "shell_exec"

\* _build_tools_list with the shell tool advertised whenever an executor is set
BuildToolsListShellAlways(st, has_executor) ==
    LET tools == (IF st.web_search_enabled THEN <<"web_search">> ELSE << >>)
              \o (IF st.tools_enabled /\ has_executor THEN FILE_TOOLS ELSE << >>)
              \o (IF has_executor THEN <<SHELL_TOOL>> ELSE << >>)
    IN  [present |-> tools # << >>, tools |-> tools]

\* GraftSession._build_tools_list: present is FALSE when it returns None and
\* the request gets no "tools" key
BuildToolsList(st, has_executor) ==
    LET tools == (IF st.web_search_enabled THEN <<"web_search">> ELSE << >>)
              \o (IF st.tools_enabled /\ has_executor THEN FILE_TOOLS ELSE << >>)
              \o (IF st.shell_enabled /\ has_executor THEN <<SHELL_TOOL>> ELSE << >>)
    IN  [present |-> tools # << >>, tools |-> tools]

NoneSent == [present |-> FALSE, tools |-> << >>]

\* no conversation has been saved
NoStore == << >>

\* handle_compress is not running
NoCompress == [at |-> "none", name |-> << >>, before |-> << >>, compressed |-> << >>]

----------------------------------------------------------------------------
(* Conversation.save and the saved conversations *)

\* the content of <name>.json written by save
Saved(c, msgs) == [messages |-> msgs] @@ c

\* Conversation.save(new_name): [ok |-> FALSE when it raises ValueError,
\* conv |-> the conversation after (save assigns new_name to self.name),
\* store |-> the files after]
Save(c, msgs, files, new_name) ==
    LET named == IF new_name # << >> THEN [c EXCEPT !.name = new_name] ELSE c
    IN  IF named.name = << >> THEN [ok |-> FALSE, conv |-> named, store |-> files]
        ELSE [ok |-> TRUE, conv |-> named,
              store |-> (named.name :> Saved(named, msgs)) @@ files]

----------------------------------------------------------------------------
(* The inputs of the model *)

\* the filesystem the executor starts on: the root "/r" with a directory, a
\* text file, a file that is not text, a link leaving the root and a link
\* staying inside it; "/o" lies outside the root
Fixture ==
    (<< >> :> Dir) @@ (<<"r">> :> Dir) @@ (<<"r", "a">> :> Dir) @@ (<<"r", "e">> :> Dir)
    @@ (<<"r", "a", "b.txt">> :> File(<<104, 105>>))
    @@ (<<"r", "s.txt">> :> File(<<255>>))
    @@ (<<"r", "lnk">> :> Link(<<"o">>))
    @@ (<<"r", "in">> :> Link(<<"r", "a">>))
    @@ (<<"o">> :> Dir) @@ (<<"o", "s.txt">> :> File(<<105>>))

\* paths given to list_dir and read_file
PathInputs ==
    { RelPath(<< >>), RelPath(<<"a">>), RelPath(<<"e">>), RelPath(<<"a", "b.txt">>),
      RelPath(<<"a", "n">>),
      RelPath(<<"n", "n">>), RelPath(<<"s.txt">>), RelPath(<<"a", "b.txt", "n">>),
      RelPath(<<"a", "..", "a", "b.txt">>), RelPath(<<"in", "b.txt">>),
      RelPath(<<"..">>), RelPath(<<"..", "o", "s.txt">>),
      RelPath(<<"lnk", "s.txt">>), RelPath(<<"lnk", "..", "r", "a">>),
      RelPath(<<NulName>>),
      AbsPath(<<"o", "s.txt">>), AbsPath(<<"r", "a", "b.txt">>) }

\* paths given to write_file
WritePaths ==
    { RelPath(<<"a">>), RelPath(<<"a", "b.txt">>), RelPath(<<"a", "n">>),
      RelPath(<<"n", "n">>), RelPath(<<"a", "b.txt", "n">>),
      RelPath(<<"a", "..", "a", "n">>), RelPath(<<"in", "n">>),
      RelPath(<<"a", "..", "..", "o", "n">>), RelPath(<<"lnk", "n">>),
      RelPath(<<NulName>>), AbsPath(<<"o", "s.txt">>) }

ContentInputs == { <<"h", "i">>, <<"e'">> }

\* the calls of execute the model makes: a tool name and a tool input
ToolInputs ==
    { <<n, [path |-> p]>> : n \in {"list_dir", "read_file"}, p \in PathInputs }
    \cup { <<"write_file", [path |-> p, content |-> c]>> : p \in WritePaths, c \in ContentInputs }
    \cup { <<"write_file", [path |-> RelPath(<<"a", "n">>), content |-> <<Surrogate>>]>> }
    \cup { <<"write_file", [path |-> RelPath(<<"a", "n">>), content |-> <<"h", CR>>]>> }
    \cup { <<"shell_exec", [command |-> c]>> : c \in Commands }
    \cup { <<n, [other |-> "x"]>> : n \in {"list_dir", "read_file", "write_file", "shell_exec", "nope"} }
    \cup { <<"write_file", [path |-> RelPath(<<"a", "n">>)]>> }

UserInputs == { <<"u">> }

tuMissing == ToolUse("A", "read_file", [path |-> RelPath(<<"a", "zz">>)])

tuWrite == ToolUse("B", "write_file", [path |-> RelPath(<<"a", "n">>), content |-> <<"h", "i">>])

tuDenied == ToolUse("A", "read_file", [path |-> RelPath(<<"..", "o", "s.txt">>)])

tuSleep == ToolUse("B", "shell_exec", [command |-> "sleep 60"])

tuUnknown == ToolUse("A", "nope", [other |-> "x"])

tuNoKey == ToolUse("B", "read_file", [other |-> "x"])

\* the responses the service may give: content blocks and a stop reason
\* the usage reported with a response: plain; with cache counts and a web
\* search; with the optional counts None
UsagePlain == Usage(2, 1, [cache_creation_input_tokens |-> <<0>>,
                           cache_read_input_tokens |-> <<0>>])

UsageCached == Usage(1, 2, [cache_creation_input_tokens |-> <<3>>,
                            cache_read_input_tokens |-> <<4>>,
                            server_tool_use |-> <<[web_search_requests |-> <<1>>]>>])

UsageNone == Usage(3, 1, [cache_creation_input_tokens |-> << >>,
                          server_tool_use |-> <<[web_search_requests |-> << >>]>>])

ToolResponses ==
    { [content |-> <<ThinkingBlock(<<"t">>, "sig"), TextBlock(<<"x">>), tuMissing, ServerBlock, tuWrite>>,
       stop_reason |-> "tool_use", usage |-> UsageCached],
      [content |-> <<tuDenied, tuSleep>>, stop_reason |-> "tool_use", usage |-> UsagePlain],
      [content |-> <<tuUnknown, tuNoKey>>, stop_reason |-> "tool_use", usage |-> UsagePlain] }

FinalResponses ==
    { [content |-> <<TextBlock(<<"o">>), TextBlock(<<"k">>)>>, stop_reason |-> "end_turn",
       usage |-> UsagePlain],
      [content |-> <<ThinkingBlock(<<"t">>, "sig"), TextBlock(<<"x">>), tuMissing>>,
       stop_reason |-> "max_tokens", usage |-> UsageNone],
      [content |-> <<TextBlock(<<"x">>)>>, stop_reason |-> "tool_use", usage |-> UsagePlain] }

Responses == ToolResponses \cup FinalResponses

NoResponse == [content |-> << >>, stop_reason |-> "none"]

NoCall == [name |-> "none", input |-> [other |-> "x"], result |-> << >>, raised |-> "",
           exc |-> "", msg |-> << >>, fs_before |-> << >>]

TTLs == {"off", "5m", "1h"}

\* the arguments given to /cache
CacheArgs == {"on", "5m", "1h", "off", "2h"}

NoReset == [n |-> 0, op |-> "none", replaced |-> FALSE, stats |-> ZeroStats,
            requests |-> 0, tool_calls |-> 0, asked |-> "-"]

NoCheck == [n |-> 0, window |-> << >>, now |-> 0, advisory |-> << >>, after |-> << >>]

\* no request of the turn has opened a stream yet
NoStream ==
    [n |-> 0, open |-> FALSE, events |-> << >>, pos |-> 0, shown_from |-> 0,
     response_text |-> << >>, thinking_text |-> << >>, in_thinking |-> FALSE,
     shown |-> << >>]

\* the clock advances by one of these between two reads
TimeSteps == {0, RateWindowSecs}

----------------------------------------------------------------------------
(* GraftSession.send_message *)

\* an except clause that removes nothing
RollbackNothing(msgs) == msgs

\* the rollback of the except clause
Rollback(msgs) ==
    IF msgs # << >> /\ Last(msgs).role = "user" THEN Front(msgs) ELSE msgs

\* a loop that allows one tool round per call
LoopContinuesOnce(resp) ==
    resp.stop_reason = "tool_use" /\ ToolUsesOf(resp.content) # << >> /\ rounds < 1

\* the "we're done" test looking at the blocks only
LoopContinuesOnBlocks(resp) == ToolUsesOf(resp.content) # << >>

\* the loop goes on to the tools (the negation of the "we're done" test)
LoopContinues(resp) == resp.stop_reason = "tool_use" /\ ToolUsesOf(resp.content) # << >>

\* the assistant message appended when the loop ends
FinalMessage(resp) ==
    IF resp.stop_reason = "tool_use"
    THEN Msg("assistant", Blocks(SerializeContent(resp.content)))
    ELSE Msg("assistant", Str(ResponseText(resp.content)))

\* "First, save assistant's response with tool_use blocks"
CommitToolUse(msgs, resp) ==
    Append(msgs, Msg("assistant", Blocks(SerializeContent(resp.content))))

CommitResultsEach(msgs, results) ==
    msgs \o [i \in 1..Len(results) |-> Msg("user", Blocks(<<results[i]>>))]

\* "Add tool results as a user message"
CommitResults(msgs, results) == Append(msgs, Msg("user", Blocks(results)))

NextToolUseReversed(tool_uses, done) == tool_uses[Len(tool_uses) - done]

\* the for loop over tool_uses: the block executed after `done` results
NextToolUse(tool_uses, done) == tool_uses[done + 1]

ResultIdOfFirst(tool_uses, tool_use) == tool_uses[1].id

\* the tool_use_id put on a result
ResultId(tool_uses, tool_use) == tool_use.id

ResultWithoutAdvisory(result, advisory) == result

\* "result += self._check_tool_rate()"
ResultWithAdvisory(result, advisory) == result \o advisory

\* the loop refusing the tools that were not advertised
RunToolAdvertised(f, has_executor, tool_use) ==
    IF has_executor /\ (tool_use.name = "shell_exec" => settings.shell_enabled)
                    /\ (tool_use.name # "shell_exec" => settings.tools_enabled)
    THEN Execute(f, tool_use.name, tool_use.input)
    ELSE [result |-> <<"Error: Tool executor not configured">>, raised |-> "",
          exc |-> "", msg |-> << >>, fs |-> f]

\* the result string of one tool_use before the rate check
RunTool(f, has_executor, tool_use) ==
    IF has_executor THEN Execute(f, tool_use.name, tool_use.input)
    ELSE [result |-> <<"Error: Tool executor not configured">>, raised |-> "",
          exc |-> "", msg |-> << >>, fs |-> f]

StoredIsPrepared(prep) == prep.prepared

\* conversation.messages after the request was built: the turn goes on
\* appending to the stored list, never to the prepared one
StoredAfterPrepare(prep) == prep.messages

\* handle_command, '/cache': the TTL after the command with argument arg
CacheArg(ttl, arg) ==
    IF arg \in {"on", "5m"} THEN "5m"
    ELSE IF arg = "1h" THEN "1h"
    ELSE IF arg = "off" THEN "off"
    ELSE ttl

\* the record kept of one _check_tool_rate call
RateLog(log, window, t, rate) ==
    [n |-> log.n + 1, window |-> window, now |-> t, advisory |-> rate.advisory,
     after |-> rate.window]

\* send_message up to the first request: the user message is appended
SendMessage(user_input) ==
    /\ pc = "idle"
    /\ requests < MaxRequests
    /\ LET fresh == conversation = "none"
           reset == ResetStats(stats, requests, tool_calls)
           msgs == IF fresh THEN << >> ELSE messages
       IN  \* "if not self.conversation: self.new_conversation()"
           /\ messages' = Append(msgs, Msg("user", Str(user_input)))
           /\ before' = msgs
           /\ stats' = IF fresh THEN reset.stats ELSE stats
           /\ requests' = IF fresh THEN reset.requests ELSE requests
           /\ tool_calls' = IF fresh THEN reset.tool_calls ELSE tool_calls
    /\ conversation' = "some"
    /\ unsaved_changes' = TRUE
    /\ pc' = "request"
    /\ rounds' = 0
    /\ outcome' = "running"
    /\ response' = NoResponse
    /\ tool_results' = << >>
    /\ exec_log' = << >>
    /\ prepared' = << >>
    /\ UNCHANGED <<recent_tool_calls, now, tool_executor, fs, last, cache_ttl, rate_log,
                   stat_log>>
    /\ UNCHANGED stream
    /\ conv' = IF conversation = "none" THEN FreshConv ELSE conv
    /\ UNCHANGED <<settings, store, sent>>

\* run(): a line that is no command is sent as a message
Submit(user_input) ==
    /\ compress.at = "none"
    /\ SendMessage(user_input)
    /\ UNCHANGED compress

\* one request whose stream completes with the response resp
Respond(resp) ==
    /\ pc = "request"
    /\ requests < MaxRequests
    /\ LoopContinues(resp) => requests + 1 < MaxRequests
    /\ requests' = requests + 1
    /\ stats' = RecordUsage(stats, resp)
    /\ response' = resp
    /\ tool_results' = << >>
    /\ exec_log' = << >>
    /\ rounds' = IF resp.stop_reason = "tool_use" /\ ToolUsesOf(resp.content) # << >>
                 THEN rounds + 1 ELSE rounds
    /\ LET prep == PrepareMessagesForCache(messages, cache_ttl)
           stored == StoredAfterPrepare(prep)
       IN  /\ prepared' = Append(prepared, prep.prepared)
           /\ IF LoopContinues(resp)
              THEN /\ messages' = CommitToolUse(stored, resp)
                   /\ pc' = "tools"
                   /\ outcome' = "running"
              ELSE /\ messages' = Append(stored, FinalMessage(resp))
                   /\ pc' = "idle"
                   /\ outcome' = "done"
    /\ UNCHANGED <<tool_calls, recent_tool_calls, now, tool_executor, fs, before, last,
                   cache_ttl, rate_log, conversation, unsaved_changes, stat_log>>
    /\ UNCHANGED stream
    /\ sent' = BuildToolsList(settings, tool_executor)
    /\ UNCHANGED <<settings, conv, store, compress>>

\* a failed request that is issued once more before the except clause runs
TransportFailureRetried ==
    /\ pc = "request"
    /\ LET prep == PrepareMessagesForCache(messages, cache_ttl)
       IN  /\ prepared' = Append(Append(prepared, prep.prepared), prep.prepared)
           /\ messages' = Rollback(StoredAfterPrepare(prep))
    /\ pc' = "idle"
    /\ outcome' = "failed"
    /\ UNCHANGED <<response, tool_results, requests, tool_calls, recent_tool_calls, now,
                   tool_executor, fs, before, rounds, exec_log, last, cache_ttl, rate_log>>
    /\ UNCHANGED sessionVars
    /\ UNCHANGED stream
    /\ sent' = BuildToolsList(settings, tool_executor)
    /\ UNCHANGED <<settings, conv, store, compress>>

\* one request that fails with an exception of the transport: the except clause
TransportFailure ==
    /\ pc = "request"
    /\ LET prep == PrepareMessagesForCache(messages, cache_ttl)
       IN  /\ prepared' = Append(prepared, prep.prepared)
           /\ messages' = Rollback(StoredAfterPrepare(prep))
    /\ pc' = "idle"
    /\ outcome' = "failed"
    /\ UNCHANGED <<response, tool_results, requests, tool_calls, recent_tool_calls, now,
                   tool_executor, fs, before, rounds, exec_log, last, cache_ttl, rate_log>>
    /\ UNCHANGED sessionVars
    /\ UNCHANGED stream
    /\ sent' = BuildToolsList(settings, tool_executor)
    /\ UNCHANGED <<settings, conv, store, compress>>

\* KeyboardInterrupt while the stream is consumed or a tool runs: it is no
\* Exception, so the except clause does not run, and run() calls
\* send_message outside its own try: the interrupt leaves the REPL loop
KeyboardInterrupt ==
    /\ pc \in {"request", "tools"}
    /\ pc' = "crashed"
    /\ outcome' = "interrupted"
    /\ IF pc = "request"
       THEN LET prep == PrepareMessagesForCache(messages, cache_ttl)
            IN  /\ prepared' = Append(prepared, prep.prepared)
                /\ messages' = StoredAfterPrepare(prep)
       ELSE UNCHANGED <<messages, prepared>>
    /\ UNCHANGED <<cache_ttl, rate_log>>
    /\ UNCHANGED sessionVars
    /\ UNCHANGED <<response, tool_results, requests, tool_calls, recent_tool_calls,
                   now, tool_executor, fs, before, rounds, exec_log, last>>
    /\ UNCHANGED stream
    /\ sent' = IF pc = "request" THEN BuildToolsList(settings, tool_executor) ELSE sent
    /\ UNCHANGED <<settings, conv, store, compress>>

\* one iteration of the for loop over tool_uses; after the last one the
\* results are appended as one user message and the loop issues the next request
ExecTool(dt) ==
    /\ pc = "tools"
    /\ now + dt <= MaxTime
    /\ LET tool_uses == ToolUsesOf(response.content)
           tool_use == NextToolUse(tool_uses, Len(tool_results))
           run == RunTool(fs, tool_executor, tool_use)
           rate == CheckToolRate(recent_tool_calls, now + dt)
           result == ResultWithAdvisory(run.result, rate.advisory)
           results == Append(tool_results,
                             ToolResult(ResultId(tool_uses, tool_use), result))
       IN  /\ tool_calls' = tool_calls + 1
           /\ fs' = run.fs
           /\ IF run.raised # ""
              THEN \* an exception out of execute reaches the except clause
                   /\ messages' = Rollback(messages)
                   /\ pc' = "idle"
                   /\ outcome' = "tool_raised"
                   /\ UNCHANGED <<now, recent_tool_calls, tool_results, exec_log, rate_log>>
              ELSE /\ now' = now + dt
                   /\ recent_tool_calls' = rate.window
                   /\ rate_log' = RateLog(rate_log, recent_tool_calls, now + dt, rate)
                   /\ tool_results' = results
                   /\ exec_log' = Append(exec_log, [id |-> tool_use.id,
                                                    result |-> run.result,
                                                    advisory |-> rate.advisory,
                                                    check |-> rate_log.n + 1,
                                                    count |-> Len(rate.window)])
                   /\ outcome' = outcome
                   /\ IF Len(results) = Len(tool_uses)
                      THEN /\ messages' = CommitResults(messages, results)
                           /\ pc' = "request"
                      ELSE UNCHANGED <<messages, pc>>
    /\ UNCHANGED <<response, requests, tool_executor, before, rounds, last, cache_ttl,
                   prepared>>
    /\ UNCHANGED sessionVars
    /\ UNCHANGED stream
    /\ UNCHANGED commandVars

\* the /cache command, given between two turns
CacheCommand(arg) ==
    /\ pc = "idle"
    /\ compress.at = "none"
    /\ cache_ttl' = CacheArg(cache_ttl, arg)
    /\ cache_ttl' # cache_ttl
    /\ UNCHANGED <<messages, pc, response, tool_results, requests, tool_calls,
                   recent_tool_calls, now, tool_executor, fs, before, rounds, exec_log,
                   outcome, last, prepared, rate_log>>
    /\ UNCHANGED sessionVars
    /\ UNCHANGED stream
    /\ UNCHANGED commandVars

Init ==
    /\ messages = << >>
    /\ pc = "idle"
    /\ response = NoResponse
    /\ tool_results = << >>
    /\ requests = 0
    /\ tool_calls = 0
    /\ recent_tool_calls \in { << >>, [i \in 1..(RateThreshold - 1) |-> 0] }
    /\ now = 0
    /\ tool_executor \in BOOLEAN
    /\ fs = Fixture
    /\ before = << >>
    /\ rounds = 0
    /\ exec_log = << >>
    /\ outcome = "none"
    /\ last = NoCall
    /\ cache_ttl \in TTLs
    /\ prepared = << >>
    /\ rate_log = NoCheck
    /\ stats = ZeroStats
    /\ conversation = "some"
    /\ unsaved_changes = FALSE
    /\ stat_log = NoReset
    /\ stream = NoStream
    /\ settings = [InitSettings EXCEPT !.tools_enabled = tool_executor]
    /\ conv = [FreshConv EXCEPT !.tools_path = tool_executor]
    /\ store = NoStore
    /\ sent = NoneSent
    /\ compress = NoCompress

Next ==
    \/ \E u \in UserInputs : Submit(u)
    \/ \E resp \in Responses : Respond(resp)
    \/ TransportFailure
    \/ KeyboardInterrupt
    \/ \E dt \in TimeSteps : ExecTool(dt)
    \/ \E arg \in CacheArgs : CacheCommand(arg)

Spec == Init /\ [][Next]_vars

----------------------------------------------------------------------------
(* ToolExecutor used on its own: any sequence of execute calls *)

\* one call of ToolExecutor.execute(tool_name, tool_input)
ToolCall(tool_name, tool_input) ==
    /\ LET run == Execute(fs, tool_name, tool_input)
       IN  /\ fs' = run.fs
           /\ last' = [name |-> tool_name, input |-> tool_input, result |-> run.result,
                       raised |-> run.raised, exc |-> run.exc, msg |-> run.msg,
                       fs_before |-> fs]
    /\ UNCHANGED <<turnVars, stream>>

InitTool ==
    /\ Init
    /\ tool_executor = TRUE
    /\ recent_tool_calls = << >>
    /\ cache_ttl = "5m"

NextTool == \E ti \in ToolInputs : ToolCall(ti[1], ti[2])

SpecTool == InitTool /\ [][NextTool]_vars

----------------------------------------------------------------------------
(* prepare_messages_for_cache used on its own: calls on any message list *)

\* the messages a list may hold: what send_message stores, and user messages
\* with list content as loaded or imported conversations have them
MessageKinds ==
    { Msg("user", Str(<<"q">>)),
      Msg("user", Blocks(<<TextBlock(<<"q">>), TextBlock(<<"r">>)>>)),
      Msg("user", Blocks(<<TextBlock(<<"q">>), ToolResult("A", <<"ok">>)>>)),
      Msg("user", Blocks(<<ToolResult("A", <<"ok">>)>>)),
      Msg("user", Blocks(<< >>)),
      Msg("assistant", Str(<<"o">>)),
      Msg("assistant", Blocks(<<ThinkingBlock(<<"t">>, "sig"), TextBlock(<<"x">>), tuMissing>>)) }

MessageLists == UNION { [1..n -> MessageKinds] : n \in 0..MaxMessages }

\* one call prepare_messages_for_cache(messages, cache_ttl)
PrepareCall ==
    /\ Len(prepared) < MaxPrepares
    /\ LET prep == PrepareMessagesForCache(messages, cache_ttl)
       IN  /\ prepared' = Append(prepared, prep.prepared)
           /\ messages' = prep.messages
    /\ UNCHANGED <<pc, response, tool_results, requests, tool_calls, recent_tool_calls,
                   now, tool_executor, fs, before, rounds, exec_log, outcome, last,
                   cache_ttl, rate_log>>
    /\ UNCHANGED sessionVars
    /\ UNCHANGED stream
    /\ UNCHANGED commandVars

InitCache ==
    /\ messages \in MessageLists
    /\ before = messages
    /\ cache_ttl \in TTLs
    /\ prepared = << >>
    /\ pc = "idle"
    /\ response = NoResponse
    /\ tool_results = << >>
    /\ requests = 0
    /\ tool_calls = 0
    /\ recent_tool_calls = << >>
    /\ now = 0
    /\ tool_executor = TRUE
    /\ fs = Fixture
    /\ rounds = 0
    /\ exec_log = << >>
    /\ outcome = "none"
    /\ last = NoCall
    /\ rate_log = NoCheck
    /\ stats = ZeroStats
    /\ conversation = "some"
    /\ unsaved_changes = FALSE
    /\ stat_log = NoReset
    /\ stream = NoStream
    /\ settings = [InitSettings EXCEPT !.tools_enabled = tool_executor]
    /\ conv = [FreshConv EXCEPT !.tools_path = tool_executor]
    /\ store = NoStore
    /\ sent = NoneSent
    /\ compress = NoCompress

NextCache == PrepareCall

SpecCache == InitCache /\ [][NextCache]_vars

----------------------------------------------------------------------------
(* _check_tool_rate used on its own: calls at any times of a non-decreasing clock *)

\* the windows the calls start from: empty, a cluster of nine calls at one
\* time, nine calls spread over two times
RateWindows ==
    { << >>,
      [i \in 1..(RateThreshold - 1) |-> 0],
      [i \in 1..(RateThreshold - 1) |-> IF i <= 5 THEN 0 ELSE 1] }

\* the clock advances by one of these between two calls
RateSteps == {0, 1, RateWindowSecs - 1, RateWindowSecs, RateWindowSecs + 1}

\* one call self._check_tool_rate() after the clock advanced by dt
CheckRate(dt) ==
    /\ rate_log.n < MaxChecks
    /\ LET rate == CheckToolRate(recent_tool_calls, now + dt)
       IN  /\ now' = now + dt
           /\ recent_tool_calls' = rate.window
           /\ rate_log' = RateLog(rate_log, recent_tool_calls, now + dt, rate)
    /\ UNCHANGED <<messages, pc, response, tool_results, requests, tool_calls,
                   tool_executor, fs, before, rounds, exec_log, outcome, last,
                   cache_ttl, prepared>>
    /\ UNCHANGED sessionVars
    /\ UNCHANGED stream
    /\ UNCHANGED commandVars

InitRate ==
    /\ recent_tool_calls \in RateWindows
    /\ now = IF recent_tool_calls = << >> THEN 0 ELSE Last(recent_tool_calls)
    /\ rate_log = NoCheck
    /\ messages = << >>
    /\ pc = "idle"
    /\ response = NoResponse
    /\ tool_results = << >>
    /\ requests = 0
    /\ tool_calls = 0
    /\ tool_executor = TRUE
    /\ fs = Fixture
    /\ before = << >>
    /\ rounds = 0
    /\ exec_log = << >>
    /\ outcome = "none"
    /\ last = NoCall
    /\ cache_ttl = "5m"
    /\ prepared = << >>
    /\ stats = ZeroStats
    /\ conversation = "some"
    /\ unsaved_changes = FALSE
    /\ stat_log = NoReset
    /\ stream = NoStream
    /\ settings = [InitSettings EXCEPT !.tools_enabled = tool_executor]
    /\ conv = [FreshConv EXCEPT !.tools_path = tool_executor]
    /\ store = NoStore
    /\ sent = NoneSent
    /\ compress = NoCompress

NextRate == \E dt \in RateSteps : CheckRate(dt)

SpecRate == InitRate /\ [][NextRate]_vars

----------------------------------------------------------------------------
(* The session and its usage counters: turns, and conversations created, *)
(* loaded and imported                                                    *)

\* what Conversation.load / Conversation.from_import find: no such file, a
\* file that is not a conversation, or a conversation saved without a tools path
StoredMessages == <<Msg("user", Str(<<"q">>)), Msg("assistant", Str(<<"o">>))>>

\* the file <name>.json does not exist
MissingFile == [found |-> FALSE, valid |-> FALSE, messages |-> << >>] @@ FreshConv

\* the name and the tool settings kept in a conversation file
ConvOf(file) ==
    [name |-> file.name, web_search |-> file.web_search, tools_path |-> file.tools_path,
     shell_enabled |-> file.shell_enabled]

\* load_conversation, "Restore tool settings from conversation"
RestoredSettings(c) ==
    [web_search_enabled |-> c.web_search, tools_enabled |-> c.tools_path,
     shell_enabled |-> c.shell_enabled]

\* Conversation.load: what load_conversation finds under a name
FileOf(files, name) ==
    IF name \in DOMAIN files
    THEN [found |-> TRUE, valid |-> TRUE] @@ files[name]
    ELSE [MissingFile EXCEPT !.name = name]

ConversationFiles ==
    { MissingFile,
      [found |-> TRUE, valid |-> FALSE, messages |-> << >>] @@ FreshConv,
      [found |-> TRUE, valid |-> TRUE, messages |-> StoredMessages] @@ FreshConv }

\* the answers given to "Discard? [y/N]"
Answers == {"y", ""}

\* the prompt of new_conversation and load_conversation is shown and not answered y
\* a confirmation that only an explicit "n" declines
DeclinedOnlyByNo(answer) == conversation = "some" /\ unsaved_changes /\ answer = "n"

Declined(answer) == conversation = "some" /\ unsaved_changes /\ answer # "y"

\* the record kept of one new / load / import operation
\* (asked is the answer to the confirmation, "-" when none was asked for)
ResetLog(op, replaced, answer) ==
    [n |-> stat_log.n + 1, op |-> op, replaced |-> replaced, stats |-> stats,
     requests |-> requests, tool_calls |-> tool_calls,
     asked |-> IF conversation = "some" /\ unsaved_changes THEN answer ELSE "-"]

\* the active conversation is replaced and the counters are reset
Replace(msgs, unsaved) ==
    LET reset == ResetStats(stats, requests, tool_calls)
    IN  /\ conversation' = "some"
        /\ messages' = msgs
        /\ unsaved_changes' = unsaved
        /\ stats' = reset.stats
        /\ requests' = reset.requests
        /\ tool_calls' = reset.tool_calls

\* GraftSession.new_conversation
NewConversation(answer) ==
    /\ pc = "idle"
    /\ compress.at = "none"
    /\ stat_log.n < MaxResets
    /\ IF Declined(answer)
       THEN /\ stat_log' = ResetLog("new", FALSE, answer)
            /\ UNCHANGED <<conversation, messages, unsaved_changes, stats, requests,
                           tool_calls, conv>>
       ELSE /\ stat_log' = ResetLog("new", TRUE, answer)
            /\ Replace(<< >>, FALSE)
            /\ conv' = FreshConv
    /\ UNCHANGED <<pc, response, tool_results, recent_tool_calls, now, tool_executor, fs,
                   before, rounds, exec_log, outcome, last, cache_ttl, prepared, rate_log>>
    /\ UNCHANGED <<stream, settings, store, sent, compress>>

\* GraftSession.load_conversation: a missing file is reported, any other
\* failure of Conversation.load leaves load_conversation as an exception
LoadConversation(file, answer) ==
    /\ pc = "idle"
    /\ compress.at = "none"
    /\ stat_log.n < MaxResets
    /\ IF Declined(answer) \/ ~file.found
       THEN /\ stat_log' = ResetLog("load", FALSE, answer)
            /\ UNCHANGED <<conversation, messages, unsaved_changes, stats, requests,
                           tool_calls, tool_executor, pc, conv, settings>>
       ELSE IF ~file.valid
       THEN /\ stat_log' = ResetLog("load", FALSE, answer)
            /\ pc' = "crashed"
            /\ UNCHANGED <<conversation, messages, unsaved_changes, stats, requests,
                           tool_calls, tool_executor, conv, settings>>
       ELSE /\ stat_log' = ResetLog("load", TRUE, answer)
            /\ Replace(file.messages, FALSE)
            /\ conv' = ConvOf(file)
            /\ settings' = RestoredSettings(conv')
            /\ tool_executor' = file.tools_path
            /\ pc' = pc
    /\ UNCHANGED <<response, tool_results, recent_tool_calls, now, fs, before, rounds,
                   exec_log, outcome, last, cache_ttl, prepared, rate_log>>
    /\ UNCHANGED <<stream, store, sent, compress>>

\* GraftSession.import_conversation: no prompt; every failure of
\* Conversation.from_import is reported
ImportConversation(file) ==
    /\ pc = "idle"
    /\ compress.at = "none"
    /\ stat_log.n < MaxResets
    /\ IF ~file.found \/ ~file.valid
       THEN /\ stat_log' = ResetLog("import", FALSE, "-")
            /\ UNCHANGED <<conversation, messages, unsaved_changes, stats, requests,
                           tool_calls, conv>>
       ELSE /\ stat_log' = ResetLog("import", TRUE, "-")
            /\ Replace(file.messages, TRUE)
            /\ conv' = [FreshConv EXCEPT !.name = file.name]
    /\ UNCHANGED <<pc, response, tool_results, recent_tool_calls, now, tool_executor, fs,
                   before, rounds, exec_log, outcome, last, cache_ttl, prepared, rate_log>>
    /\ UNCHANGED <<stream, settings, store, sent, compress>>

\* the responses of this specification: one tool round, and final responses
\* with and without usage
StatResponses ==
    { [content |-> <<tuUnknown>>, stop_reason |-> "tool_use", usage |-> UsageCached],
      [content |-> <<TextBlock(<<"o">>)>>, stop_reason |-> "end_turn", usage |-> UsageNone],
      [content |-> <<TextBlock(<<"o">>)>>, stop_reason |-> "end_turn"] }

\* GraftSession.__init__: no conversation yet
InitStats ==
    /\ messages = << >>
    /\ pc = "idle"
    /\ response = NoResponse
    /\ tool_results = << >>
    /\ requests = 0
    /\ tool_calls = 0
    /\ recent_tool_calls = << >>
    /\ now = 0
    /\ tool_executor = FALSE
    /\ fs = Fixture
    /\ before = << >>
    /\ rounds = 0
    /\ exec_log = << >>
    /\ outcome = "none"
    /\ last = NoCall
    /\ cache_ttl = "5m"
    /\ prepared = << >>
    /\ rate_log = NoCheck
    /\ stats = ZeroStats
    /\ conversation = "none"
    /\ unsaved_changes = FALSE
    /\ stat_log = NoReset
    /\ stream = NoStream
    /\ settings = InitSettings
    /\ conv = FreshConv
    /\ store = NoStore
    /\ sent = NoneSent
    /\ compress = NoCompress

NextStats ==
    \/ \E u \in UserInputs : Submit(u)
    \/ \E resp \in StatResponses : Respond(resp)
    \/ ExecTool(0)
    \/ \E answer \in Answers : NewConversation(answer)
    \/ \E file \in ConversationFiles, answer \in Answers : LoadConversation(file, answer)
    \/ \E file \in ConversationFiles : ImportConversation(file)

SpecStats == InitStats /\ [][NextStats]_vars

----------------------------------------------------------------------------
(* The stream decoder on its own: the streams of the requests of one turn *)

\* streams with several deltas for one block, two thinking blocks, an empty
\* delta, and events the loop does not look at
StreamInputs ==
    { EventsOf(r.content) : r \in Responses }
    \cup { <<OtherEvent("message_start"),
             BlockStart("thinking"), Delta("thinking_delta", <<"t">>),
             Delta("thinking_delta", <<"u", "v">>), BlockStop,
             BlockStart("text"), Delta("text_delta", <<"a">>), OtherEvent("text"),
             Delta("text_delta", <<"b", "c">>), BlockStop,
             BlockStart("thinking"), Delta("thinking_delta", <<"w">>), BlockStop,
             BlockStart("text"), Delta("text_delta", << >>), Delta("text_delta", <<"d">>),
             BlockStop, OtherEvent("message_stop")>>,
           <<BlockStart("text"), Delta("text_delta", <<"a">>), BlockStop,
             BlockStart("tool_use"), Delta("input_json_delta", << >>), BlockStop>> }

\* "with self.client.messages.stream(**request_kwargs) as stream": the
\* locals of the loop are set
OpenStream(events) ==
    /\ ~stream.open
    /\ stream.n < MaxStreams
    /\ stream' = [n |-> stream.n + 1, open |-> TRUE, events |-> events, pos |-> 0,
                  shown_from |-> Len(stream.shown), shown |-> stream.shown]
                 @@ StreamStart(stream)
    /\ UNCHANGED <<turnVars, fs, last>>

\* one event of the stream is consumed
StreamEvent ==
    /\ stream.open
    /\ stream.pos < Len(stream.events)
    /\ stream' = [OnEvent(stream, stream.events[stream.pos + 1]) EXCEPT !.pos = @ + 1]
    /\ UNCHANGED <<turnVars, fs, last>>

\* the stream is exhausted: get_final_message and the end of the with block
CloseStream ==
    /\ stream.open
    /\ stream.pos = Len(stream.events)
    /\ stream' = [stream EXCEPT !.open = FALSE]
    /\ UNCHANGED <<turnVars, fs, last>>

InitStream ==
    /\ Init
    /\ tool_executor = TRUE
    /\ recent_tool_calls = << >>
    /\ cache_ttl = "5m"

NextStream ==
    \/ \E events \in StreamInputs : OpenStream(events)
    \/ StreamEvent
    \/ CloseStream

SpecStream == InitStream /\ [][NextStream]_vars

----------------------------------------------------------------------------
(* handle_compress *)

\* content.split('\n'): the lines of a text
RECURSIVE SplitLines(_, _)
SplitLines(text, line) ==
    IF text = << >> THEN <<line>>
    ELSE IF Head(text) = LF THEN <<line>> \o SplitLines(Tail(text), << >>)
    ELSE SplitLines(Tail(text), Append(line, Head(text)))

\* the turn markers the two patterns match at the start of a line
UserMarkers == {"User: ", "U1: ", "Human: "}
AssistantMarkers == {"Assistant: ", "A1: ", "Claude: "}

\* str.strip() of a text whose only white space is line ends
RECURSIVE Strip(_)
Strip(text) ==
    IF text = << >> THEN << >>
    ELSE IF Head(text) = LF THEN Strip(Tail(text))
    ELSE IF Last(text) = LF THEN Strip(Front(text))
    ELSE text

\* "Save previous message if exists"
Flush(st) ==
    LET text == Strip(JoinLines(st.content))
    IN  IF st.role # "" /\ st.content # << >> /\ text # << >>
        THEN Append(st.messages, Msg(st.role, text))
        ELSE st.messages

\* one pass of "for line in lines"
ParseLine(st, line) ==
    IF line # << >> /\ Head(line) \in UserMarkers
    THEN [messages |-> Flush(st), role |-> "user", content |-> <<Tail(line)>>]
    ELSE IF line # << >> /\ Head(line) \in AssistantMarkers
    THEN [messages |-> Flush(st), role |-> "assistant", content |-> <<Tail(line)>>]
    ELSE IF line # << >> /\ Head(line) = "[Context:" THEN st
    ELSE IF st.role # "" THEN [st EXCEPT !.content = Append(@, line)]
    ELSE st

RECURSIVE ParseLines(_, _)
ParseLines(st, lines) ==
    IF lines = << >> THEN Flush(st)
    ELSE ParseLines(ParseLine(st, Head(lines)), Tail(lines))

\* GraftSession._parse_compressed_transcript; the messages it builds have
\* plain text content
ParseCompressedTranscript(text) ==
    LET parsed == ParseLines([messages |-> << >>, role |-> "", content |-> << >>],
                             SplitLines(text, << >>))
    IN  [i \in 1..Len(parsed) |-> Msg(parsed[i].role, Str(parsed[i].content))]

BackupName(name) == name \o <<"-precompression">>

\* the two messages handle_compress sends
Instruction == <<"compress">>
ContinuityCheck == <<"continuous?">>

\* handle_compress up to the end of its first send_message: the user has
\* answered y to "Proceed?" and the instruction is sent
CompressStart ==
    /\ compress.at = "none"
    /\ conversation = "some"
    /\ messages # << >>
    /\ SendMessage(Instruction)
    /\ compress' = [at |-> "instructed", name |-> conv.name, before |-> << >>,
                    compressed |-> << >>]

\* handle_compress from the return of its first send_message: the last
\* message is parsed and, when the user confirms, the backup is saved, the
\* messages are replaced and saved, and the continuity check is sent
CompressApply(answer, name_input) ==
    /\ pc = "idle"
    /\ compress.at = "instructed"
    /\ LET content == Last(messages).content
           new_messages == IF IsStr(content) THEN ParseCompressedTranscript(content.str)
                           ELSE << >>
           named == IF conv.name = << >> THEN [conv EXCEPT !.name = name_input] ELSE conv
           backup == Save(named, messages, store, BackupName(named.name))
           applied == Save(backup.conv, new_messages, backup.store, << >>)
       IN  IF \/ new_messages = << >>
              \/ answer # "y"
              \/ named.name = << >>
           THEN \* nothing is applied and handle_compress returns
                /\ compress' = [compress EXCEPT !.at = "none"]
                /\ UNCHANGED <<messages, pc, response, tool_results, requests, tool_calls,
                               before, rounds, exec_log, outcome, prepared, stats,
                               conversation, unsaved_changes, conv, store>>
           ELSE /\ requests < MaxRequests
                /\ conv' = applied.conv
                /\ store' = applied.store
                /\ compress' = [at |-> "applied", name |-> named.name,
                                before |-> messages, compressed |-> new_messages]
                \* send_message(continuity check)
                /\ messages' = Append(new_messages, Msg("user", Str(ContinuityCheck)))
                /\ before' = new_messages
                /\ unsaved_changes' = TRUE
                /\ pc' = "request"
                /\ rounds' = 0
                /\ outcome' = "running"
                /\ response' = NoResponse
                /\ tool_results' = << >>
                /\ exec_log' = << >>
                /\ prepared' = << >>
                /\ UNCHANGED <<requests, tool_calls, stats, conversation>>
    /\ UNCHANGED <<recent_tool_calls, now, tool_executor, fs, last, cache_ttl, rate_log,
                   stat_log, stream, settings, sent>>

\* the continuity check has returned and with it handle_compress
CompressFinish ==
    /\ pc = "idle"
    /\ compress.at = "applied"
    /\ compress' = [compress EXCEPT !.at = "none"]
    /\ UNCHANGED <<messages, pc, response, tool_results, requests, tool_calls,
                   recent_tool_calls, now, tool_executor, fs, before, rounds, exec_log,
                   outcome, last, cache_ttl, prepared, rate_log, stream>>
    /\ UNCHANGED sessionVars
    /\ UNCHANGED <<settings, conv, store, sent>>

\* what the service answers to the instruction and to the continuity check
CompressResponses ==
    { [content |-> <<TextBlock(<<"User: ", "q", LF, "Assistant: ", "o", "k">>)>>,
       stop_reason |-> "end_turn", usage |-> UsagePlain],
      [content |-> <<TextBlock(<<"[Context:", "x", LF, "U1: ", "q", LF, LF, "A1: ", "o", LF,
                                 "more", LF>>)>>,
       stop_reason |-> "end_turn", usage |-> UsagePlain],
      [content |-> <<TextBlock(<<"sorry">>)>>, stop_reason |-> "end_turn",
       usage |-> UsagePlain],
      [content |-> <<TextBlock(<<"User: ", "q">>)>>, stop_reason |-> "tool_use",
       usage |-> UsagePlain] }

\* the names given to "Name for this conversation: "
NameInputs == { << >>, <<"n">> }

\* a session with a conversation of two messages, named and saved or not
InitCompress ==
    /\ messages = StoredMessages
    /\ pc = "idle"
    /\ response = NoResponse
    /\ tool_results = << >>
    /\ requests = 0
    /\ tool_calls = 0
    /\ recent_tool_calls = << >>
    /\ now = 0
    /\ tool_executor = FALSE
    /\ fs = Fixture
    /\ before = << >>
    /\ rounds = 0
    /\ exec_log = << >>
    /\ outcome = "none"
    /\ last = NoCall
    /\ cache_ttl \in {"5m", "off"}
    /\ prepared = << >>
    /\ rate_log = NoCheck
    /\ stats = ZeroStats
    /\ conversation = "some"
    /\ unsaved_changes \in BOOLEAN
    /\ stat_log = NoReset
    /\ stream = NoStream
    /\ settings = InitSettings
    /\ conv \in {FreshConv, [FreshConv EXCEPT !.name = <<"c">>]}
    /\ store \in {NoStore, Save([FreshConv EXCEPT !.name = <<"c">>], StoredMessages,
                                NoStore, << >>).store}
    /\ sent = NoneSent
    /\ compress = NoCompress

NextCompress ==
    \/ CompressStart
    \/ \E resp \in CompressResponses : Respond(resp)
    \/ TransportFailure
    \/ \E answer \in Answers, name_input \in NameInputs : CompressApply(answer, name_input)
    \/ CompressFinish
    \/ \E u \in UserInputs : Submit(u)

SpecCompress == InitCompress /\ [][NextCompress]_vars

----------------------------------------------------------------------------
(* The commands of the REPL that work on the tool settings and on the saved *)
(* conversations                                                            *)

\* what every command below leaves alone: the turn and its histories
CommandFrame ==
    /\ compress.at = "none"
    /\ UNCHANGED <<response, tool_results, recent_tool_calls, now, fs, before, rounds,
                   exec_log, outcome, last, cache_ttl, prepared, rate_log, stream,
                   sent, compress>>

\* handle_command, '/web on' and '/web off'
WebCommand(arg) ==
    /\ pc = "idle"
    /\ CommandFrame
    /\ settings' = [settings EXCEPT !.web_search_enabled = (arg = "on")]
    /\ conv' = IF conversation = "some" THEN [conv EXCEPT !.web_search = (arg = "on")]
               ELSE conv
    /\ UNCHANGED <<messages, pc, requests, tool_calls, tool_executor, store>>
    /\ UNCHANGED sessionVars

\* the arguments given to /tools: "off" or a path: the root of the model, a
\* file, a path that does not exist
ToolsArgs == {<<"off">>, project_root, <<"r", "a", "b.txt">>, <<"nope">>}

\* handle_command, '/tools off' and '/tools <path>'
ToolsCommand(arg) ==
    /\ pc = "idle"
    /\ CommandFrame
    /\ IF arg = <<"off">>
       THEN /\ settings' = [settings EXCEPT !.tools_enabled = FALSE,
                                            !.shell_enabled = FALSE]
            /\ tool_executor' = FALSE
            /\ conv' = IF conversation = "some"
                       THEN [conv EXCEPT !.tools_path = FALSE, !.shell_enabled = FALSE]
                       ELSE conv
       ELSE IF ~Exists(fs, arg) \/ ~IsDir(fs, arg)
       THEN UNCHANGED <<settings, tool_executor, conv>>
       ELSE /\ settings' = [settings EXCEPT !.tools_enabled = TRUE]
            /\ tool_executor' = TRUE
            /\ conv' = IF conversation = "some" THEN [conv EXCEPT !.tools_path = TRUE]
                       ELSE conv
    /\ UNCHANGED <<messages, pc, requests, tool_calls, store>>
    /\ UNCHANGED sessionVars

\* handle_command, '/shell on' and '/shell off'
ShellCommand(arg) ==
    /\ pc = "idle"
    /\ CommandFrame
    /\ IF arg = "on" /\ ~tool_executor
       THEN UNCHANGED <<settings, conv>>
       ELSE /\ settings' = [settings EXCEPT !.shell_enabled = (arg = "on")]
            /\ conv' = IF conversation = "some"
                       THEN [conv EXCEPT !.shell_enabled = (arg = "on")]
                       ELSE conv
    /\ UNCHANGED <<messages, pc, requests, tool_calls, tool_executor, store>>
    /\ UNCHANGED sessionVars

\* handle_command, '/save [name]' (no name is asked for: an unnamed
\* conversation saved without a name is "Save cancelled")
SaveCommand(name) ==
    /\ pc = "idle"
    /\ CommandFrame
    /\ conversation = "some"
    /\ LET saved == Save(conv, messages, store, name)
       IN  IF saved.ok
           THEN /\ conv' = saved.conv
                /\ store' = saved.store
                /\ unsaved_changes' = FALSE
           ELSE UNCHANGED <<conv, store, unsaved_changes>>
    /\ UNCHANGED <<messages, pc, requests, tool_calls, tool_executor, settings, stats,
                   conversation, stat_log>>

\* handle_command, '/delete <name>'
DeleteCommand(name, answer) ==
    /\ pc = "idle"
    /\ CommandFrame
    /\ IF name \in DOMAIN store /\ answer = "y"
       THEN /\ store' = [n \in DOMAIN store \ {name} |-> store[n]]
            /\ conversation' = IF conversation = "some" /\ conv.name = name
                               THEN "none" ELSE conversation
       ELSE UNCHANGED <<store, conversation>>
    /\ UNCHANGED <<messages, pc, requests, tool_calls, tool_executor, settings, conv,
                   stats, unsaved_changes, stat_log>>

\* handle_command, '/quit': FALSE is returned and run() leaves its loop,
\* unless the confirmation is declined
QuitCommand(answer) ==
    /\ pc = "idle"
    /\ CommandFrame
    /\ stat_log.n < MaxResets
    /\ stat_log' = ResetLog("quit", FALSE, answer)
    /\ pc' = IF Declined(answer) THEN pc ELSE "quit"
    /\ UNCHANGED <<messages, requests, tool_calls, tool_executor, settings, conv, store,
                   stats, conversation, unsaved_changes>>

\* handle_command, '/load <name>'
LoadCommand(name, answer) == LoadConversation(FileOf(store, name), answer)

\* main(): with saved conversations the menu asks for a name (its result is
\* not looked at), without any a new conversation is started; then run()
Startup(choice) ==
    /\ pc = "start"
    /\ LET file == FileOf(store, choice)
       IN  IF store # NoStore /\ choice # << >>
           THEN IF file.found
                THEN /\ Replace(file.messages, FALSE)
                     /\ conv' = ConvOf(file)
                     /\ settings' = RestoredSettings(conv')
                     /\ tool_executor' = file.tools_path
                ELSE UNCHANGED <<conversation, messages, unsaved_changes, stats,
                                 requests, tool_calls, conv, settings, tool_executor>>
           ELSE /\ Replace(<< >>, FALSE)
                /\ conv' = FreshConv
                /\ UNCHANGED <<settings, tool_executor>>
    /\ pc' = "idle"
    /\ UNCHANGED <<response, tool_results, recent_tool_calls, now, fs, before, rounds,
                   exec_log, outcome, last, cache_ttl, prepared, rate_log, stream,
                   sent, compress, store, stat_log>>

\* run(), the prompt f"[{self.conversation.name or 'new'}] You: " built inside
\* a try that catches EOFError and KeyboardInterrupt only
PromptFails ==
    /\ pc = "idle"
    /\ conversation = "none"
    /\ pc' = "crashed"
    /\ outcome' = "prompt_raised"
    /\ UNCHANGED <<messages, response, tool_results, requests, tool_calls,
                   recent_tool_calls, now, tool_executor, fs, before, rounds, exec_log,
                   last, cache_ttl, prepared, rate_log, stream>>
    /\ UNCHANGED sessionVars
    /\ UNCHANGED commandVars

\* the names given to /save, /load, /delete and to the menu
ConversationNames == { <<"c">>, <<"d">> }

\* the conversation saved by an earlier session: web search, a tools path and
\* the shell were on
SavedBefore ==
    Save([name |-> <<"c">>, web_search |-> TRUE, tools_path |-> TRUE,
          shell_enabled |-> TRUE], StoredMessages, NoStore, << >>).store

\* the state after GraftSession.__init__ with the default configuration
InitSession ==
    /\ messages = << >>
    /\ pc = "start"
    /\ response = NoResponse
    /\ tool_results = << >>
    /\ requests = 0
    /\ tool_calls = 0
    /\ recent_tool_calls = << >>
    /\ now = 0
    /\ tool_executor = FALSE
    /\ fs = Fixture
    /\ before = << >>
    /\ rounds = 0
    /\ exec_log = << >>
    /\ outcome = "none"
    /\ last = NoCall
    /\ cache_ttl = "5m"
    /\ prepared = << >>
    /\ rate_log = NoCheck
    /\ stats = ZeroStats
    /\ conversation = "none"
    /\ unsaved_changes = FALSE
    /\ stat_log = NoReset
    /\ stream = NoStream
    /\ settings = InitSettings
    /\ conv = FreshConv
    /\ store \in {NoStore, SavedBefore}
    /\ sent = NoneSent
    /\ compress = NoCompress

\* run(): the prompt was built, a line is read
Prompted == pc = "idle" /\ conversation = "some"

NextSession ==
    \/ \E choice \in ConversationNames \cup {<< >>} : Startup(choice)
    \/ PromptFails
    \/ \E arg \in {"on", "off"} : Prompted /\ WebCommand(arg)
    \/ \E arg \in ToolsArgs : Prompted /\ ToolsCommand(arg)
    \/ \E arg \in {"on", "off"} : Prompted /\ ShellCommand(arg)
    \/ \E name \in ConversationNames \cup {<< >>} : Prompted /\ SaveCommand(name)
    \/ \E name \in ConversationNames, answer \in Answers :
          Prompted /\ DeleteCommand(name, answer)
    \/ \E answer \in Answers : Prompted /\ QuitCommand(answer)
    \/ \E answer \in Answers : Prompted /\ NewConversation(answer)
    \/ \E name \in ConversationNames, answer \in Answers :
          Prompted /\ LoadCommand(name, answer)

SpecSession == InitSession /\ [][NextSession]_vars

----------------------------------------------------------------------------
(* Properties of send_message *)

\* the messages appended since send_message was entered
Appended == SubSeq(messages, Len(before) + 1, Len(messages))

BlocksOfType(m, type) ==
    IF IsStr(m.content) THEN << >>
    ELSE SelectSeq(m.content.blocks, LAMBDA b : b.type = type)

HasToolResults(m) == BlocksOfType(m, "tool_result") # << >>

IsToolUseMsg(m) == m.role = "assistant" /\ BlocksOfType(m, "tool_use") # << >>

IsToolResultMsg(m) ==
    /\ m.role = "user"
    /\ ~IsStr(m.content)
    /\ m.content.blocks # << >>
    /\ \A i \in 1..Len(m.content.blocks) : m.content.blocks[i].type = "tool_result"

ToolUseIds(m) ==
    LET bs == BlocksOfType(m, "tool_use") IN [i \in 1..Len(bs) |-> bs[i].id]

ResultIds(m) ==
    LET bs == BlocksOfType(m, "tool_result") IN [i \in 1..Len(bs) |-> bs[i].tool_use_id]

\* C1: a call answered by N responses with stop reason tool_use (each with a
\* tool_use block) and then one response with another stop reason appends
\* exactly user, (assistant-with-tool_use, user-with-tool_results) x N,
\* assistant-final: N+1 assistant messages, N tool-result messages, nothing else.
C1_TurnShape ==
    (outcome = "done" /\ response.stop_reason # "tool_use") =>
        /\ IsPrefix(before, messages)
        /\ Len(Appended) = 2 * rounds + 2
        /\ Appended[1].role = "user"
        /\ IsStr(Appended[1].content)
        /\ \A k \in 1..rounds :
              /\ IsToolUseMsg(Appended[2 * k])
              /\ IsToolResultMsg(Appended[2 * k + 1])
        /\ Appended[2 * rounds + 2].role = "assistant"
        /\ ~HasToolResults(Appended[2 * rounds + 2])
        /\ Cardinality({i \in 1..Len(Appended) : Appended[i].role = "assistant"}) = rounds + 1
        /\ Cardinality({i \in 1..Len(Appended) : HasToolResults(Appended[i])}) = rounds

C1_Witness ==
    /\ outcome = "done"
    /\ response.stop_reason = "end_turn"
    /\ rounds = 2
    /\ Len(messages) = Len(before) + 6

\* C2: after a call in which a request failed in the transport, the last
\* message of the conversation is the last message it had before the call.
C2_LastMessageRestored ==
    (outcome = "failed" /\ before # << >>) =>
        (messages # << >> /\ Last(messages) = Last(before))

\* C3: after a call that ended in a transport failure the conversation holds
\* no message appended during the call, whatever the number of tool rounds.
C3_NothingAppended == outcome = "failed" => messages = before

\* C4: a keyboard interrupt during the stream or a tool is treated as a turn
\* failure: the user message is rolled back and no message of the turn stays.
C4_InterruptRollsBack == outcome = "interrupted" => messages = before

\* C5: every message holding tool_result blocks has role user and directly
\* follows an assistant message whose tool_use blocks have exactly the ids of
\* those results, one result per tool_use, in emission order.
C5_ResultsFollowUses ==
    \A i \in 1..Len(messages) :
        HasToolResults(messages[i]) =>
            /\ IsToolResultMsg(messages[i])
            /\ i > 1
            /\ IsToolUseMsg(messages[i - 1])
            /\ ResultIds(messages[i]) = ToolUseIds(messages[i - 1])

C5_Witness ==
    /\ outcome = "failed"
    /\ \E i \in 1..Len(messages) :
          HasToolResults(messages[i]) /\ Len(ResultIds(messages[i])) = 2

\* C6: the tool_use blocks of one response are executed one at a time in
\* emission order, each exactly once, and the tool_result blocks of the
\* following user message are in that same order.
C6_SequentialInOrder ==
    LET ids == [i \in 1..Len(ToolUsesOf(response.content)) |->
                    ToolUsesOf(response.content)[i].id]
    IN  pc \in {"tools", "request"} =>
            /\ Len(exec_log) = Len(tool_results)
            /\ Len(exec_log) <= Len(ids)
            /\ \A i \in 1..Len(exec_log) :
                  exec_log[i].id = ids[i] /\ tool_results[i].tool_use_id = ids[i]
            /\ pc = "tools" => Len(exec_log) < Len(ids)
            /\ (pc = "request" /\ rounds > 0) =>
                  /\ Len(exec_log) = Len(ids)
                  /\ Last(messages) = Msg("user", Blocks(tool_results))
                  /\ ResultIds(Last(messages)) = ids

C6_Witness ==
    /\ pc = "request"
    /\ Len(exec_log) = 2
    /\ exec_log[1].id = "A"
    /\ exec_log[2].id = "B"
    /\ ResultIds(Last(messages)) = <<"A", "B">>

\* the error text each failing tool_use of the model must produce
ExpectedError(tool_use) ==
    IF ~tool_executor THEN <<"Error: Tool executor not configured">>
    ELSE CASE tool_use = tuDenied ->
                <<"Error: ", "Access denied: path '", "..", "o", "s.txt",
                  "' is outside project root">>
           [] tool_use = tuMissing -> <<"Error: File '", "a", "zz", "' does not exist">>
           [] tool_use = tuSleep -> TimedOutText
           [] tool_use = tuUnknown -> <<"Error: Unknown tool '", "nope", "'">>
           [] tool_use = tuNoKey -> <<"Error: ", "KeyError", ": ", "'", "path", "'">>
           [] OTHER -> << >>

Fails(tool_use) == ExpectedError(tool_use) # << >>

\* C7: a failing tool execution never aborts the turn and never triggers the
\* rollback: its error text (followed by the advisory of its own rate check)
\* is the content of its tool_result, the tool-result message is appended and
\* the next request is issued.
C7_ToolFailureContinues ==
    /\ outcome # "tool_raised"
    /\ (pc \in {"tools", "request"} /\ exec_log # << >>) =>
          LET tool_uses == ToolUsesOf(response.content)
          IN  /\ outcome = "running"
              /\ IsPrefix(before, messages)
              /\ Len(messages) >= Len(before) + 2
              /\ \A i \in 1..Len(tool_results) :
                    Fails(tool_uses[i]) =>
                        tool_results[i].content =
                            ExpectedError(tool_uses[i]) \o exec_log[i].advisory
              /\ Len(tool_results) = Len(tool_uses) =>
                    /\ pc = "request"
                    /\ Last(messages) = Msg("user", Blocks(tool_results))

C7_Witness ==
    /\ pc = "request"
    /\ tool_executor
    /\ Len(tool_results) = 2
    /\ tool_results[1].content = <<"Error: Unknown tool '", "nope", "'">>
    /\ tool_results[2].content = <<"Error: ", "KeyError", ": ", "'", "path", "'">>

----------------------------------------------------------------------------
(* Properties of ToolExecutor *)

\* c is the root or a descendant of it
UnderRoot(c) ==
    /\ Len(c) >= Len(project_root)
    /\ \A i \in 1..Len(project_root) : c[i] = project_root[i]

\* c is canonical on f: no "." or ".." and no symbolic link on the way
Canonical(f, c) ==
    \A i \in 1..Len(c) :
        /\ c[i] \notin {".", ".."}
        /\ ~(Exists(f, SubSeq(c, 1, i)) /\ f[SubSeq(c, 1, i)].t = "link")

Denied(p) == <<"Error: ">> \o AccessDeniedMsg(p)

\* the exception raised on purpose by _safe_path
IsAccessDenied(call) ==
    /\ "path" \in DOMAIN call.input
    /\ call.exc = "ValueError"
    /\ call.msg = AccessDeniedMsg(call.input.path)

\* C8: execute returns a string and propagates no exception for every tool
\* name and input, and an unexpected fault comes back as an error string
\* carrying the failure kind and the message.
C8_ExecuteTotal ==
    last.name # "none" =>
        /\ last.raised = ""
        /\ (last.exc # "" /\ ~IsAccessDenied(last)) =>
              last.result = <<"Error: ", last.exc, ": ">> \o last.msg

\* C9: _safe_path fails with the access-denied error for every path whose
\* resolution lies outside the root, and otherwise succeeds and returns the
\* canonical path, which is the root or a descendant of it.
C9_SafePath ==
    \A p \in PathInputs \cup WritePaths :
        ~HasNul(p) =>
            LET c == Resolve(fs, p)
                sp == SafePath(fs, p)
            IN  IF UnderRoot(c)
                THEN sp.exc = "" /\ sp.val = c /\ UnderRoot(sp.val) /\ Canonical(fs, sp.val)
                ELSE sp.exc = "ValueError" /\ sp.msg = AccessDeniedMsg(p)

C9_Witness ==
    /\ last.name = "read_file"
    /\ last.input = [path |-> RelPath(<<"..", "o", "s.txt">>)]
    /\ last.result = Denied(RelPath(<<"..", "o", "s.txt">>))
    /\ Exists(fs, <<"r", "n", "n">>)
    /\ SafePath(fs, RelPath(<<"a", "..", "a", "b.txt">>)) = Ret(<<"r", "a", "b.txt">>)

\* C10: list_dir, read_file and write_file check the canonical path before
\* they touch the filesystem: a path through a link that leaves the root is
\* denied, a path with ".." that resolves inside the root is not, and a denied
\* call leaves the filesystem as it was; nothing outside the root ever changes.
C10_CheckOnCanonicalPath ==
    /\ \A c \in DOMAIN fs \cup DOMAIN Fixture :
          ~UnderRoot(c) => (Exists(fs, c) /\ Exists(Fixture, c) /\ fs[c] = Fixture[c])
    /\ ( /\ last.name \in {"list_dir", "read_file", "write_file"}
         /\ "path" \in DOMAIN last.input
         /\ last.name = "write_file" => "content" \in DOMAIN last.input
         /\ ~HasNul(last.input.path) ) =>
          IF UnderRoot(Resolve(last.fs_before, last.input.path))
          THEN last.result # Denied(last.input.path)
          ELSE last.result = Denied(last.input.path) /\ fs = last.fs_before

C10_Witness ==
    /\ last.name = "write_file"
    /\ last.input = [path |-> RelPath(<<"lnk", "n">>), content |-> <<"h", "i">>]
    /\ last.result = Denied(RelPath(<<"lnk", "n">>))
    /\ fs = last.fs_before
    /\ fs # Fixture

----------------------------------------------------------------------------
(* Properties of the stored assistant messages *)

ThinkingBlocksOf(content) == SelectSeq(content, LAMBDA b : b.type = "thinking")

\* C11: when a turn ends, the final assistant message is plain text if the
\* final response holds no tool_use block, and otherwise the structured block
\* sequence of that response, its thinking blocks included.
C11_FinalMessageStorage ==
    outcome = "done" =>
        /\ messages # << >>
        /\ Last(messages).role = "assistant"
        /\ IF ToolUsesOf(response.content) = << >>
           THEN Last(messages).content = Str(ResponseText(response.content))
           ELSE /\ ~IsStr(Last(messages).content)
                /\ Last(messages).content.blocks = SerializeContent(response.content)
                /\ ThinkingBlocksOf(Last(messages).content.blocks)
                      = ThinkingBlocksOf(response.content)

\* C12: every thinking block of every response of a turn is stored in the
\* conversation with its text and its signature unchanged (here: in the
\* assistant message stored for that response), and every later request of
\* the conversation carries the thinking blocks of the stored messages unchanged.
C12_ThinkingPreserved ==
    /\ (pc = "tools" \/ outcome = "done") =>
          /\ messages # << >>
          /\ \A i \in 1..Len(response.content) :
                response.content[i].type = "thinking" =>
                    /\ ~IsStr(Last(messages).content)
                    /\ \E j \in 1..Len(Last(messages).content.blocks) :
                          Last(messages).content.blocks[j] = response.content[i]
    /\ \A k \in 1..Len(prepared) :
          \A i \in 1..Len(prepared[k]) :
              (i <= Len(messages) /\ messages[i].role = "assistant"
                 /\ ~IsStr(messages[i].content)) =>
                  /\ ~IsStr(prepared[k][i].content)
                  /\ ThinkingBlocksOf(prepared[k][i].content.blocks)
                        = ThinkingBlocksOf(messages[i].content.blocks)

----------------------------------------------------------------------------
(* Properties of prepare_messages_for_cache *)

HasMarker(block) == "cache_control" \in DOMAIN block

\* the places <<message index, block index>> of a list that carry a marker
MarkerPlaces(msgs) ==
    { pl \in UNION { {<<i, j>> : j \in 1..(IF IsStr(msgs[i].content) THEN 0
                                           ELSE Len(msgs[i].content.blocks))} :
                     i \in 1..Len(msgs) } :
        HasMarker(msgs[pl[1]].content.blocks[pl[2]]) }

MarkedMessages(msgs) == { pl[1] : pl \in MarkerPlaces(msgs) }

\* human-text as the specification defines it: role user, and plain text or
\* at least one text block
HumanText(msgs) ==
    { i \in 1..Len(msgs) :
        /\ msgs[i].role = "user"
        /\ \/ IsStr(msgs[i].content)
           \/ BlocksOfType(msgs[i], "text") # << >> }

SetMax(S) == CHOOSE x \in S : \A y \in S : y <= x

C14_SecondToLastHuman ==
    (prepared # << >> /\ cache_ttl # "off" /\ Cardinality(HumanText(before)) >= 2) =>
        LET H == HumanText(before)
        IN  MarkedMessages(prepared[1]) = { SetMax(H \ {SetMax(H)}) }

C14_Witness ==
    /\ prepared # << >>
    /\ cache_ttl = "5m"
    /\ Len(before) = 4
    /\ HumanText(before) = {1, 2, 4}
    /\ IsToolResultMsg(before[3])
    /\ MarkedMessages(prepared[1]) = {2}

\* C15: a prepared message list holds at most one block with a cache marker,
\* and none when the list has fewer than two human-text messages (the
\* stored messages carrying no marker).
C15_AtMostOneMarker ==
    \A k \in 1..Len(prepared) :
        /\ Cardinality(MarkerPlaces(prepared[k])) <= 1
        /\ Cardinality(HumanText(before)) < 2 => MarkerPlaces(prepared[k]) = {}

C15_Witness ==
    /\ prepared # << >>
    /\ cache_ttl = "1h"
    /\ Len(before) = 4
    /\ Cardinality(HumanText(before)) = 1
    /\ Cardinality({i \in 1..4 : before[i].role = "user"}) = 3
    /\ MarkerPlaces(prepared[1]) = {}

\* C16: the marker is on the last content block of the chosen message and on
\* no other block; for ttl 5m it is the default marker without a duration,
\* for ttl 1h it carries a duration of one hour (3600 seconds).
C16_MarkerOnLastBlock ==
    \A k \in 1..Len(prepared) :
        \A pl \in MarkerPlaces(prepared[k]) :
            LET blocks == prepared[k][pl[1]].content.blocks
                marker == blocks[pl[2]].cache_control
            IN  /\ pl[2] = Len(blocks)
                /\ cache_ttl = "5m" => marker = [type |-> "ephemeral"]
                /\ cache_ttl = "1h" => marker = [type |-> "ephemeral", ttl |-> 3600]
                /\ IF IsStr(before[pl[1]].content)
                   THEN blocks = <<[type |-> "text", text |-> before[pl[1]].content.str,
                                    cache_control |-> marker]>>
                   ELSE /\ Len(blocks) = Len(before[pl[1]].content.blocks)
                        /\ \A j \in 1..(Len(blocks) - 1) :
                              blocks[j] = before[pl[1]].content.blocks[j]
                        /\ \A f \in DOMAIN before[pl[1]].content.blocks[pl[2]] :
                              blocks[pl[2]][f] = before[pl[1]].content.blocks[pl[2]][f]

C16_Witness ==
    /\ prepared # << >>
    /\ cache_ttl = "1h"
    /\ \E pl \in MarkerPlaces(prepared[1]) :
          /\ pl[2] = 2
          /\ prepared[1][pl[1]].content.blocks[2].type = "tool_result"
          /\ prepared[1][pl[1]].content.blocks[2].cache_control.ttl = 3600

\* C17 as stated: with ttl off or fewer than two messages the returned
\* messages have the same roles and text and no marker, and every plain-text
\* content has been normalized to a single text block.
C17_OffNormalizes ==
    (prepared # << >> /\ (cache_ttl = "off" \/ Len(before) < 2)) =>
        /\ Len(prepared[1]) = Len(before)
        /\ MarkerPlaces(prepared[1]) = {}
        /\ \A i \in 1..Len(before) :
              /\ prepared[1][i].role = before[i].role
              /\ prepared[1][i].content =
                    IF IsStr(before[i].content)
                    THEN Blocks(<<TextBlock(before[i].content.str)>>)
                    ELSE before[i].content

\* C17 amended: with ttl off or fewer than two messages the list passed in is
\* returned as it is: same roles and content, no marker, and plain-text
\* content left as plain text, not normalized.
C17_OffReturnsInput ==
    (prepared # << >> /\ (cache_ttl = "off" \/ Len(before) < 2)) =>
        /\ prepared[1] = before
        /\ MarkerPlaces(prepared[1]) = {}
        /\ \A i \in 1..Len(before) :
              IsStr(before[i].content) => IsStr(prepared[1][i].content)

C17_Witness ==
    /\ prepared # << >>
    /\ cache_ttl = "off"
    /\ Len(before) = 4
    /\ Cardinality(HumanText(before)) >= 2
    /\ IsStr(before[1].content)
    /\ IsStr(prepared[1][1].content)

\* C18: no block of conversation.messages ever carries cache_control, after
\* any sequence of successful and failed turns with any ttl.
C18_MarkerNeverStored ==
    \A i \in 1..Len(messages) :
        ~IsStr(messages[i].content) =>
            \A j \in 1..Len(messages[i].content.blocks) :
                ~HasMarker(messages[i].content.blocks[j])

C18_Witness ==
    /\ outcome \in {"done", "failed"}
    /\ Len(prepared) >= 2
    /\ MarkerPlaces(prepared[Len(prepared)]) # {}
    /\ rounds >= 1

----------------------------------------------------------------------------
(* Properties of _check_tool_rate *)

\* the timestamps of a window that are less than 60 seconds old at time t
Younger(window, t) == SelectSeq(window, LAMBDA x : t - x < 60)

\* C19: _check_tool_rate returns a non-empty advisory exactly when the window,
\* pruned and with the current time appended, holds 10 or more timestamps, on
\* every such call; a call made 61 seconds after a cluster of nine calls
\* returns the empty string.
C19_AdvisoryFromTen ==
    rate_log.n > 0 =>
        /\ rate_log.advisory # << >> <=> Len(Younger(rate_log.window, rate_log.now)) + 1 >= 10
        /\ (/\ Len(rate_log.window) = 9
            /\ \A i \in 1..9 : rate_log.now - rate_log.window[i] >= 61)
              => rate_log.advisory = << >>

C19_Witness ==
    /\ rate_log.n = 3
    /\ Len(rate_log.window) = 11
    /\ Len(recent_tool_calls) = 12
    /\ rate_log.advisory # << >>

\* C20: after a _check_tool_rate call at time now, recent_tool_calls is the
\* earlier timestamps t with now - t < 60, in their order, followed by now:
\* nothing 60 seconds old or older survives and nothing younger is lost.
C20_WindowPruned ==
    rate_log.n > 0 =>
        /\ now = rate_log.now
        /\ recent_tool_calls # << >>
        /\ Last(recent_tool_calls) = now
        /\ Front(recent_tool_calls) = Younger(rate_log.window, now)
        /\ \A i \in 1..Len(recent_tool_calls) : now - recent_tool_calls[i] < 60
        /\ \A i \in 1..Len(rate_log.window) :
              now - rate_log.window[i] < 60 =>
                  \E j \in 1..(Len(recent_tool_calls) - 1) :
                      recent_tool_calls[j] = rate_log.window[i]

C20_Witness ==
    /\ rate_log.n > 0
    /\ Len(rate_log.window) = 9
    /\ rate_log.window[1] = 0
    /\ now = 60
    /\ recent_tool_calls = <<1, 1, 1, 1, 60>>

----------------------------------------------------------------------------
(* Properties of the usage counters *)

\* all eight counters of self.stats
Counters(st, n_requests, n_tool_calls) ==
    [requests |-> n_requests, tool_calls |-> n_tool_calls] @@ st

\* the seven accumulating counters
Accumulating ==
    {"total_input_tokens", "total_output_tokens", "cache_creation_input_tokens",
     "cache_read_input_tokens", "requests", "tool_calls", "web_searches"}

\* the step replaces the conversation and resets the counters
IsResetStep ==
    \/ stat_log'.n # stat_log.n /\ stat_log'.replaced
    \/ conversation = "none" /\ conversation' = "some"

\* what the claim expects a response to add, from the usage it reports
Reported(resp, field) ==
    IF "usage" \in DOMAIN resp /\ field \in DOMAIN resp.usage /\ resp.usage[field] # << >>
    THEN resp.usage[field][1] ELSE 0

\* C21: between resets no accumulating counter decreases; a completed
\* response adds its reported token counts to the totals and exactly 1 to the
\* request count, and last_input_tokens becomes that response's input tokens.
C21_CountersAccumulate ==
    [][ ~IsResetStep =>
          LET old == Counters(stats, requests, tool_calls)
              new == Counters(stats', requests', tool_calls')
          IN  /\ \A k \in Accumulating : new[k] >= old[k]
              /\ requests' \in {requests, requests + 1}
              /\ requests' = requests => stats' = stats
              /\ (requests' = requests + 1 /\ "usage" \in DOMAIN response') =>
                    /\ new.total_input_tokens
                          = old.total_input_tokens + response'.usage.input_tokens
                    /\ new.total_output_tokens
                          = old.total_output_tokens + response'.usage.output_tokens
                    /\ new.cache_creation_input_tokens
                          = old.cache_creation_input_tokens
                            + Reported(response', "cache_creation_input_tokens")
                    /\ new.cache_read_input_tokens
                          = old.cache_read_input_tokens
                            + Reported(response', "cache_read_input_tokens")
                    /\ new.last_input_tokens = response'.usage.input_tokens
              /\ (requests' = requests + 1 /\ "usage" \notin DOMAIN response') =>
                    stats' = stats
      ]_vars

C21_Witness ==
    /\ stat_log.n = 2
    /\ stat_log.replaced
    /\ stat_log.requests > 0
    /\ requests = 2
    /\ tool_calls = 1
    /\ stats.total_input_tokens = 4
    /\ stats.last_input_tokens = 3
    /\ stats.cache_read_input_tokens = 4
    /\ stats.web_searches = 1

\* C22: right after new_conversation, load_conversation or
\* import_conversation replaced the active conversation every counter,
\* last_input_tokens included, is zero; when the operation did not replace it
\* (declined or failed) the counters are what they were.
C22_ResetOnReplace ==
    [][ stat_log'.n # stat_log.n =>
          IF stat_log'.replaced
          THEN \A k \in DOMAIN Counters(stats', requests', tool_calls') :
                   Counters(stats', requests', tool_calls')[k] = 0
          ELSE /\ Counters(stats', requests', tool_calls')
                    = Counters(stats, requests, tool_calls)
               /\ messages' = messages
               /\ conversation' = conversation
      ]_vars

C22_Witness ==
    /\ stat_log.n > 0
    /\ stat_log.op = "load"
    /\ stat_log.replaced
    /\ stat_log.requests = 2
    /\ stat_log.tool_calls = 1
    /\ stat_log.stats.last_input_tokens = 3
    /\ requests = 0
    /\ stats = ZeroStats
    /\ messages = StoredMessages

----------------------------------------------------------------------------
(* File tools: write_file, read_file, list_dir *)

\* the canonical path a finished call named, << >> when _safe_path raised
Target(f, call) ==
    IF "path" \in DOMAIN call.input /\ SafePath(f, call.input.path).exc = ""
    THEN <<SafePath(f, call.input.path).val>> ELSE << >>

Wrote(call) == call.name = "write_file" /\ call.exc = ""

\* C23: write_file(p, c) followed by read_file(p) with no write in between
\* returns exactly c
C23_WriteThenRead ==
    [][(/\ Wrote(last)
        /\ last'.name = "read_file"
        /\ Target(fs, last') # << >>
        /\ Target(fs, last') = Target(last.fs_before, last))
       => last'.result = last.input.content]_vars

\* the directories strictly between the root and the path
ParentsOf(path) == {SubSeq(path, 1, n) : n \in (Len(project_root) + 1)..(Len(path) - 1)}

\* C24: write_file creates every missing parent directory of the target,
\* overwrites an existing file, and the count in its success result equals
\* the number of bytes written to the file
C24_WriteResult ==
    Wrote(last) =>
        LET path == Target(last.fs_before, last)[1]
        IN  /\ \A d \in ParentsOf(path) : IsDir(fs, d)
            /\ IsFile(fs, path)
            /\ fs[path].data = Encode(last.input.content)
            /\ last.result[2] = ToString(Len(fs[path].data))

\* the place of a name in the order of sorted()
Rank(name) == CHOOSE i \in 1..Len(SortedNames) : SortedNames[i] = name

\* a listing is made of lines "<marker><name>" joined by newlines
EntryCount(listing) == (Len(listing) + 1) \div 3
EntryMarker(listing, k) == listing[3 * (k - 1) + 1]
EntryName(listing, k) == listing[3 * (k - 1) + 2]

\* the listing names every child of the directory once, in ascending order,
\* and marks the directories
IsListingOf(listing, f, dir) ==
    LET n == EntryCount(listing)
    IN  /\ Len(listing) = 3 * n - 1
        /\ {Append(dir, EntryName(listing, k)) : k \in 1..n} = Children(f, dir)
        /\ \A k \in 1..(n - 1) :
              Rank(EntryName(listing, k)) < Rank(EntryName(listing, k + 1))
        /\ \A k \in 1..n :
              EntryMarker(listing, k) =
                  IF IsDirFollow(f, Append(dir, EntryName(listing, k))) THEN "[d] " ELSE "    "

\* C25: list_dir gives a not-found error for an absent path, a
\* not-a-directory error for a non-directory and otherwise the entries sorted
\* by name with directories marked; read_file gives a not-found error for an
\* absent path, a not-a-file error for a non-file and a decode error for
\* non-text content; neither changes the filesystem
C25_ListAndRead ==
    (last.name \in {"list_dir", "read_file"} /\ Target(last.fs_before, last) # << >>) =>
        LET f == last.fs_before
            path == Target(f, last)[1]
            given == PathText(last.input.path)
        IN  /\ fs = f
            /\ last.raised = ""
            /\ last.name = "list_dir" =>
                  IF ~Exists(f, path)
                  THEN last.result = <<"Error: Directory '">> \o given \o <<"' does not exist">>
                  ELSE IF ~IsDir(f, path)
                  THEN last.result = <<"Error: '">> \o given \o <<"' is not a directory">>
                  ELSE IF Children(f, path) = {}
                  THEN last.result = <<"(empty directory)">>
                  ELSE IsListingOf(last.result, f, path)
            /\ last.name = "read_file" =>
                  IF ~Exists(f, path)
                  THEN last.result = <<"Error: File '">> \o given \o <<"' does not exist">>
                  ELSE IF ~IsFile(f, path)
                  THEN last.result = <<"Error: '">> \o given \o <<"' is not a file">>
                  ELSE IF ~Decode(f[path].data).ok
                  THEN last.result = <<"Error: '">> \o given \o <<"' is not a text file">>
                  ELSE last.result = ReadNewlines(Decode(f[path].data).text)

\* the root is listed after a write has added a directory to it
C25_Witness ==
    /\ last.name = "list_dir"
    /\ Target(last.fs_before, last) = <<project_root>>
    /\ Append(project_root, "n") \in DOMAIN fs
    /\ EntryCount(last.result) >= 5
    /\ last.result[1] = "[d] "

----------------------------------------------------------------------------
(* shell_exec *)

IsShellCall(call) == call.name = "shell_exec" /\ "command" \in DOMAIN call.input

\* the sections of a result, in order: stdout, stderr, exit code
Section(title, body) == IF body = << >> THEN << >> ELSE <<title>> \o body
ExitSection(rc) == IF rc = 0 THEN << >> ELSE <<"(exit code: ", ToString(rc), ")">>
Composed(run) ==
    LET present == SelectSeq(<<Section("stdout:\n", run.stdout),
                               Section("stderr:\n", run.stderr),
                               ExitSection(run.rc)>>, LAMBDA x : x # << >>)
    IN  IF present = << >> THEN <<"(no output)">> ELSE JoinLines(present)

\* C26 as stated: shell_exec never raises, and its result is the timed-out
\* error when the command runs past the limit and otherwise the stdout
\* section if non-empty, the stderr section if non-empty and the exit code
\* when it is non-zero, or "(no output)" when all three are absent
C26_ComposedOrTimedOut ==
    IsShellCall(last) =>
        LET run == ShellRun(last.input.command)
        IN  /\ last.raised = ""
            /\ last.result = IF run.timeout THEN TimedOutText ELSE Composed(run)

\* C26, amended: as above, and when running the command raises another
\* exception the result is an error string with the kind and the message
C26_ShellOutcomes ==
    IsShellCall(last) =>
        LET run == ShellRun(last.input.command)
        IN  /\ last.raised = ""
            /\ fs = last.fs_before
            /\ last.result =
                  IF run.timeout THEN TimedOutText
                  ELSE IF run.exc # "" THEN <<"Error: ", run.exc, ": ">> \o run.msg
                  ELSE Composed(run)

\* a command that writes to both streams and exits with a non-zero code
C26_Witness ==
    /\ IsShellCall(last)
    /\ ShellRun(last.input.command).stdout # << >>
    /\ ShellRun(last.input.command).stderr # << >>
    /\ ShellRun(last.input.command).rc # 0
    /\ Len(last.result) > 6

----------------------------------------------------------------------------
(* The request loop of send_message *)

\* a step in which a request completes with a response
Responded == requests' = requests + 1

\* the step leaves the loop by its break
LeavesLoop == pc' = "idle" /\ outcome' = "done"

\* a step in which the last tool_use of the round returns its result
RoundReturns ==
    /\ pc = "tools"
    /\ tool_results' # tool_results
    /\ Len(tool_results') = Len(ToolUsesOf(response.content))

\* C27 as stated: the loop is left after a response if and only if the
\* response's stop reason is not tool_use, and every response whose stop
\* reason is tool_use is followed by tool execution and another request
C27_LeavesIffNotToolUse ==
    [][/\ Responded => (LeavesLoop <=> response'.stop_reason # "tool_use")
       /\ (Responded /\ response'.stop_reason = "tool_use") => pc' = "tools"
       /\ RoundReturns => pc' = "request"]_vars

\* C27, amended: the loop is left after a response if and only if the stop
\* reason is not tool_use or the response holds no tool_use block; a response
\* with stop reason tool_use and at least one tool_use block is followed by
\* tool execution and, once the tools have returned, another request
C27_LeavesIffNothingToRun ==
    [][/\ Responded =>
            (LeavesLoop <=> (\/ response'.stop_reason # "tool_use"
                             \/ ToolUsesOf(response'.content) = << >>))
       /\ (/\ Responded
           /\ response'.stop_reason = "tool_use"
           /\ ToolUsesOf(response'.content) # << >>)
          => (pc' = "tools" /\ tool_results' = << >>)
       /\ RoundReturns => pc' = "request"]_vars

\* the tools of a tool_use response have run and the next request is due
C27_Witness ==
    /\ pc = "request"
    /\ response.stop_reason = "tool_use"
    /\ tool_results # << >>
    /\ Len(tool_results) = Len(ToolUsesOf(response.content))

\* the requests issued so far by the current call of send_message: one
\* prepared message list is built for each
Issued == Len(prepared)

\* C28: each loop iteration issues exactly one request, and after a request
\* fails no further request is issued within the same call
C28_NoRetry ==
    [][/\ Issued' # Issued => (Issued' = Issued + 1 \/ Issued' = 0)
       /\ Responded => Issued' = Issued + 1
       /\ pc' \in {"request", "tools"} => Issued' = rounds'
       /\ outcome' = "failed" => (pc' = "idle" /\ Issued' = rounds' + 1)
       /\ outcome = "failed" => (Issued' = Issued \/ (Issued' = 0 /\ pc' = "request"))]_vars

\* the request after a round of tools has failed
C28_Witness ==
    /\ outcome = "failed"
    /\ rounds >= 1
    /\ Issued = rounds + 1

----------------------------------------------------------------------------
(* The stream decoder *)

\* the events consumed so far from the stream of the current request
Seen == SubSeq(stream.events, 1, stream.pos)

DeltasOf(events, delta_type) ==
    SelectSeq(events, LAMBDA e : e.type = "content_block_delta" /\ e.delta_type = delta_type)

TextOf(deltas) == Flatten([i \in 1..Len(deltas) |-> deltas[i].text])

\* what was printed since the stream of the current request was opened
ShownNow == SubSeq(stream.shown, stream.shown_from + 1, Len(stream.shown))

Markers ==
    {<<"[Thinking...] ">>, <<"Claude: ">>}
    \cup {<<"[", ToString(k), " chars]", "\n">> : k \in 0..Len(stream.thinking_text)}

\* C29: within one response each text delta is shown when it arrives and in
\* arrival order, thinking deltas are buffered and not shown, and the text
\* accumulated equals the concatenation of the text deltas in order; the
\* accumulator starts empty for every request of the turn
C29_StreamDecoding ==
    stream.n > 0 =>
        LET texts == DeltasOf(Seen, "text_delta")
            shownDeltas == SelectSeq(ShownNow, LAMBDA x : x.kind = "delta")
        IN  /\ shownDeltas = [i \in 1..Len(texts) |-> Printed("delta", texts[i].text)]
            /\ \A i \in 1..Len(ShownNow) :
                  ShownNow[i].kind = "marker" => ShownNow[i].text \in Markers
            /\ stream.thinking_text = TextOf(DeltasOf(Seen, "thinking_delta"))
            /\ stream.response_text = TextOf(texts)

\* the second request of a turn has been decoded to its end: it had thinking
\* and several text deltas, and the request before it had shown text
C29_Witness ==
    /\ stream.n = 2
    /\ stream.pos = Len(stream.events)
    /\ stream.thinking_text # << >>
    /\ Len(DeltasOf(Seen, "text_delta")) >= 3
    /\ \E i \in 1..stream.shown_from : stream.shown[i].kind = "delta"

----------------------------------------------------------------------------
(* The rate check in the tool loop *)

\* the advisory for a window holding `count` calls
AdvisoryFor(count) ==
    IF count >= RateThreshold
    THEN <<"\n\n[Note: ", ToString(count), " tool calls in the last 60 seconds.]">>
    ELSE << >>

\* C30: the rate limiter is checked exactly once after each executed
\* tool_use, and the advisory it returns is appended to the result string of
\* that tool_use only: every result carries the advisory of its own check
C30_AdvisoryOnOwnResult ==
    /\ rate_log.n = tool_calls
    /\ Len(exec_log) = Len(tool_results)
    /\ \A i \in 1..Len(exec_log) :
          /\ exec_log[i].check = tool_calls - Len(exec_log) + i
          /\ exec_log[i].advisory = AdvisoryFor(exec_log[i].count)
          /\ tool_results[i].tool_use_id = exec_log[i].id
          /\ tool_results[i].content = exec_log[i].result \o exec_log[i].advisory

\* two results of one round: the first check returned an advisory, the
\* second, made after the window had emptied, returned none
C30_Witness ==
    /\ Len(tool_results) >= 2
    /\ exec_log[1].advisory # << >>
    /\ exec_log[2].advisory = << >>
    /\ exec_log[1].result # << >>
    /\ tool_results[2].content = exec_log[2].result

----------------------------------------------------------------------------
(* Compression *)

\* handle_compress has returned after applying a compression
CompressApplied == compress.at = "none" /\ compress.compressed # << >>

\* C31: when handle_compress has applied a compression and finishes, the
\* backup '<name>-precompression' holds the pre-compression messages, the
\* compressed conversation is saved under the original name, and the
\* conversation's name is unchanged
C31_BackupKept ==
    CompressApplied =>
        /\ BackupName(compress.name) \in DOMAIN store
        /\ store[BackupName(compress.name)].messages = compress.before
        /\ conv.name = compress.name
        /\ compress.name \in DOMAIN store
        /\ store[compress.name].messages = compress.compressed

----------------------------------------------------------------------------
(* The settings commands and the turns: what is advertised and what is run *)

\* the responses of these turns: a round with a file tool and the shell tool,
\* a final text
tuList == ToolUse("A", "list_dir", [path |-> RelPath(<<"a">>)])

tuEcho == ToolUse("B", "shell_exec", [command |-> "echo hi"])

SettingsResponses ==
    { [content |-> <<tuList, tuEcho>>, stop_reason |-> "tool_use", usage |-> UsagePlain],
      [content |-> <<TextBlock(<<"o">>)>>, stop_reason |-> "end_turn", usage |-> UsagePlain] }

\* a session started on a new conversation with the default configuration
InitSettingsTurns ==
    /\ Init
    /\ tool_executor = FALSE
    /\ recent_tool_calls = << >>
    /\ cache_ttl = "5m"

NextSettingsTurns ==
    \/ \E arg \in {"on", "off"} : Prompted /\ WebCommand(arg)
    \/ \E arg \in ToolsArgs : Prompted /\ ToolsCommand(arg)
    \/ \E arg \in {"on", "off"} : Prompted /\ ShellCommand(arg)
    \/ \E u \in UserInputs : Prompted /\ Submit(u)
    \/ \E resp \in SettingsResponses : Respond(resp)
    \/ ExecTool(0)
    \/ TransportFailure

SpecSettingsTurns == InitSettingsTurns /\ [][NextSettingsTurns]_vars

\* the tool_use blocks executed so far in the round
ExecutedUses == SubSeq(ToolUsesOf(response.content), 1, Len(exec_log))

\* C32: with an executor configured a tool_use block is executed by
\* ToolExecutor.execute whether or not its tool is switched on: shell_exec
\* with the shell off as well; the flags only decide what is advertised
C32_ExecutedWhateverTheFlags ==
    pc \in {"tools", "request"} =>
        \A i \in 1..Len(exec_log) :
            LET tool_use == ExecutedUses[i]
            IN  /\ exec_log[i].id = tool_use.id
                /\ exec_log[i].result =
                       IF tool_executor
                       THEN Execute(fs, tool_use.name, tool_use.input).result
                       ELSE <<"Error: Tool executor not configured">>

\* shell_exec was run although the shell is off and was not advertised
C32_Witness ==
    /\ pc = "request"
    /\ tool_executor
    /\ ~settings.shell_enabled
    /\ \A i \in 1..Len(sent.tools) : sent.tools[i] # SHELL_TOOL
    /\ Len(exec_log) = 2
    /\ ExecutedUses[2] = tuEcho
    /\ exec_log[2].result = Execute(fs, "shell_exec", [command |-> "echo hi"]).result
    /\ Len(exec_log[2].result) > 1

\* the tool named t is in the tool list of the last request
Advertised(t) == \E i \in 1..Len(sent.tools) : sent.tools[i] = t

\* C33: the tool list of every request holds the web search tool iff web
\* search is on, the three file tools iff tools are on and an executor is
\* set, shell_exec iff the shell is on and an executor is set; the request
\* has no tool list when none applies
C33_ToolList ==
    [][Issued' = Issued + 1 =>
         /\ Advertised("web_search")' <=> settings.web_search_enabled
         /\ \A t \in {"list_dir", "read_file", "write_file"} :
                Advertised(t)' <=> (settings.tools_enabled /\ tool_executor)
         /\ Advertised("shell_exec")' <=> (settings.shell_enabled /\ tool_executor)
         /\ Len(sent'.tools) = Cardinality({t \in {"web_search", "list_dir",
                "read_file", "write_file", "shell_exec"} : Advertised(t)'})
         /\ sent'.present <=>
                (settings.web_search_enabled \/ (settings.tools_enabled /\ tool_executor)
                 \/ (settings.shell_enabled /\ tool_executor))]_vars

\* requests went out with every tool, and with no tool list at all
C33_Witness ==
    /\ Issued >= 1
    /\ sent.present
    /\ Len(sent.tools) = 5
    /\ Advertised("shell_exec")

C33_WitnessNone ==
    /\ Issued >= 1
    /\ ~sent.present
    /\ ~settings.web_search_enabled

----------------------------------------------------------------------------
(* The confirmations of /new, /load and /quit *)

\* the responses of these turns
ConfirmResponses ==
    { [content |-> <<TextBlock(<<"o">>)>>, stop_reason |-> "end_turn", usage |-> UsagePlain] }

\* a session started with the menu on a saved conversation
InitConfirm ==
    /\ InitSession
    /\ store = SavedBefore

NextConfirm ==
    \/ \E choice \in ConversationNames \cup {<< >>} : Startup(choice)
    \/ PromptFails
    \/ \E u \in UserInputs : Prompted /\ Submit(u)
    \/ \E resp \in ConfirmResponses : Respond(resp)
    \/ TransportFailure
    \/ \E arg \in {"on", "off"} : Prompted /\ WebCommand(arg)
    \/ \E answer \in Answers : Prompted /\ NewConversation(answer)
    \/ \E name \in ConversationNames, answer \in Answers :
          Prompted /\ LoadCommand(name, answer)
    \/ \E answer \in Answers : Prompted /\ QuitCommand(answer)

SpecConfirm == InitConfirm /\ [][NextConfirm]_vars

\* the step leaves the conversation, its messages, the usage counters and the
\* tool settings as they were
Kept ==
    /\ conversation' = conversation
    /\ messages' = messages
    /\ unsaved_changes' = unsaved_changes
    /\ conv' = conv
    /\ Counters(stats', requests', tool_calls') = Counters(stats, requests, tool_calls)
    /\ settings' = settings
    /\ tool_executor' = tool_executor

\* C39: /new, /load and /quit discard an active conversation with unsaved
\* changes only when the confirmation is answered 'y'; a declined command, and
\* a confirmed /load of a name that does not exist, leave the conversation,
\* its messages, the usage counters and the tool settings unchanged
C39_NoSilentDiscard ==
    [][ stat_log'.n # stat_log.n =>
          /\ (conversation = "some" /\ unsaved_changes) =>
                /\ stat_log'.asked \in Answers
                /\ stat_log'.asked # "y" => (Kept /\ pc' = pc)
          /\ (stat_log'.op = "load" /\ ~stat_log'.replaced) => (Kept /\ pc' = pc)
      ]_vars

\* /new was declined on a conversation with unsaved messages, counted usage
\* and restored tool settings
C39_Witness ==
    /\ stat_log.op = "new"
    /\ stat_log.asked = ""
    /\ ~stat_log.replaced
    /\ unsaved_changes
    /\ Len(messages) > Len(StoredMessages)
    /\ stats.total_input_tokens > 0
    /\ settings.shell_enabled
    /\ pc = "idle"

\* a confirmed /load of a name that was never saved
C39_WitnessMissing ==
    /\ stat_log.op = "load"
    /\ stat_log.asked = "y"
    /\ ~stat_log.replaced
    /\ unsaved_changes
    /\ messages # << >>
    /\ requests > 0

----------------------------------------------------------------------------
(* The cache breakpoint over the requests of a conversation *)

\* turns with tool rounds, and /cache given between them
InitBreakpoint ==
    /\ Init
    /\ tool_executor = TRUE
    /\ recent_tool_calls = << >>

NextBreakpoint ==
    \/ \E u \in UserInputs : Submit(u)
    \/ \E resp \in Responses : Respond(resp)
    \/ TransportFailure
    \/ KeyboardInterrupt
    \/ ExecTool(0)
    \/ \E arg \in CacheArgs : CacheCommand(arg)

SpecBreakpoint == InitBreakpoint /\ [][NextBreakpoint]_vars

\* the index carrying the marker, 0 when no message carries one
MarkIndex(marks) == IF marks = {} THEN 0 ELSE SetMax(marks)

\* the index the request built from msgs is to mark: the second-to-last
\* human-text message, 0 with ttl off or fewer than two of them
Breakpoint(msgs, ttl) ==
    LET H == HumanText(msgs)
    IN  IF ttl = "off" \/ Cardinality(H) < 2 THEN 0 ELSE SetMax(H \ {SetMax(H)})

\* C34: with a fixed ttl every request of one send_message call carries the
\* cache marker on the same message index, or every request carries none: the
\* messages appended by tool rounds never move the breakpoint; and from one
\* turn to the next the marked index never decreases
C34_BreakpointStable ==
    [][ /\ Issued' = Issued + 1 =>
            /\ Cardinality(MarkedMessages(Last(prepared'))) <= 1
            /\ MarkIndex(MarkedMessages(Last(prepared'))) = Breakpoint(messages, cache_ttl)
            /\ Issued >= 1 =>
                  MarkedMessages(Last(prepared')) = MarkedMessages(Last(prepared))
        /\ (pc = "idle" /\ pc' = "request" /\ prepared # << >> /\ cache_ttl # "off") =>
              Breakpoint(messages', cache_ttl') >= MarkIndex(MarkedMessages(Last(prepared)))
        /\ pc = "request" => Issued' = Issued + 1
      ]_vars

\* the second request of a turn, after a tool round, carries the marker where
\* the first one did, on the human message of the turn before
C34_Witness ==
    /\ Issued = 2
    /\ rounds = 1
    /\ MarkedMessages(prepared[1]) = {1}
    /\ MarkedMessages(prepared[2]) = {1}
    /\ Len(prepared[2]) = Len(prepared[1]) + 2
    /\ IsToolResultMsg(Last(prepared[2]))

\* C35: starting from an empty conversation, after any sequence of
\* send_message calls that each returned, with a response or after a caught
\* failure, the roles alternate user, assistant, user, ... and the
\* conversation is empty or ends with an assistant message
C35_RolesAlternate ==
    pc = "idle" =>
        /\ \A i \in 1..Len(messages) :
              messages[i].role = IF i % 2 = 1 THEN "user" ELSE "assistant"
        /\ messages = << >> \/ Last(messages).role = "assistant"

\* a turn failed after a tool round, in a conversation with an earlier turn:
\* the tool results were removed, the assistant message of the round stays
C35_Witness ==
    /\ pc = "idle"
    /\ outcome = "failed"
    /\ rounds = 1
    /\ Len(messages) = 4
    /\ ToolUsesOf(messages[4].content.blocks) # << >>

----------------------------------------------------------------------------
(* Termination of send_message *)

\* a session with an executor, and turns one after the other
InitTurn ==
    /\ Init
    /\ tool_executor = TRUE
    /\ recent_tool_calls = << >>
    /\ cache_ttl = "5m"

NextTurn ==
    \/ \E u \in UserInputs : Submit(u)
    \/ \E resp \in Responses : Respond(resp)
    \/ TransportFailure
    \/ KeyboardInterrupt
    \/ \E dt \in TimeSteps : ExecTool(dt)

\* the request gets a response the loop breaks on, or fails
Settles == (\E resp \in FinalResponses : Respond(resp)) \/ TransportFailure

\* the request gets a response that starts a tool round
ToolRound == \E resp \in ToolResponses : Respond(resp)

\* the numbers of results a tool round can be waiting with
PendingResults ==
    UNION { 0..(Len(ToolUsesOf(resp.content)) - 1) : resp \in Responses }

\* the turns of a service and of tools as the termination claim assumes them:
\* every tool execution returns (a round never waits for its next result
\* for ever), and every stream ends, time and again with a response that is
\* no tool round or with a failure
SpecTurn ==
    /\ InitTurn
    /\ [][NextTurn]_vars
    /\ \A k \in PendingResults : []<>~(pc = "tools" /\ Len(tool_results) = k)
    /\ SF_vars(Settles)

\* send_message is running
Running == pc \in {"request", "tools"}

\* C38: send_message terminates when every stream is finite, every tool
\* execution returns and the service eventually answers with a stop reason
\* other than tool_use or a request fails; the loop itself does not bound the
\* tool rounds: whatever their number so far, the next response may start
\* another one
C38_Terminates ==
    /\ Running ~> ~Running
    /\ [](pc = "request" /\ requests + 1 < MaxRequests
             => ENABLED (ToolRound /\ pc' = "tools"))

\* the turn went through as many tool rounds as the requests allow
C38_Witness ==
    /\ pc = "idle"
    /\ outcome = "done"
    /\ rounds = MaxRequests - 1
    /\ requests = MaxRequests

\* C36: whenever the REPL loop builds its prompt the session has an active
\* conversation, also after /delete of the current conversation and after a
\* failed load from the menu at startup
C36_PromptHasConversation == pc = "idle" => conversation = "some"

\* the tool settings of the session equal those kept in the conversation
SettingsPersisted ==
    /\ settings.web_search_enabled = conv.web_search
    /\ tool_executor = conv.tools_path
    /\ settings.shell_enabled = conv.shell_enabled
    /\ settings.shell_enabled => tool_executor

\* C37: after any sequence of /web, /tools, /shell, /new and /load the tool
\* settings of the session equal the persisted settings of the active
\* conversation, and the shell is enabled only with an executor
C37_SettingsPersisted == Prompted => SettingsPersisted

====
